---------------------------- MODULE Spec2Model ----------------------------
(***************************************************************************)
(* Model of the kastle-demo outbound-call core: the Transition Engine      *)
(* (app/utils/transition_rules.py), the Template Renderer                  *)
(* (app/utils/template_render.py), the Context Store                       *)
(* (app/utils/context_manager.py), the Node Orchestrator                   *)
(* (app/utils/node_engine.py) and the relay loops of the Session           *)
(* Coordinator (app/routers/outbound_call.py).                             *)
(***************************************************************************)
EXTENDS Integers, Sequences, FiniteSets, TLC

VARIABLES
    \* --- Transition Engine harness (SpecTransition) ---
    trPc,        \* "call" before get_next_node is applied, "returned" after
    trNode,      \* argument current_node
    trVars,      \* argument extracted_vars
    trCtx,       \* argument context
    trNext,      \* the value get_next_node returned
    \* --- Template Renderer harness (SpecRender) ---
    rdPc,        \* "start", "once" after one render, "twice" after two
    rdTemplate,  \* argument template
    rdCtx,       \* argument context
    rdOut1,      \* render_template(template, context)
    rdOut2,      \* render_template(rdOut1, context)
    \* --- Context Store (the process-wide singleton context_manager) ---
    contexts,    \* _contexts: call id -> context dict
    locks,       \* the keys of _locks
    lists,       \* the transcript list objects, by reference
    \* --- one call session (handle_twilio_call) ---
    customer,    \* the customer record built before the loops start
    hStreamSid,  \* nonlocal stream_sid of the handler
    hCallSid,    \* nonlocal call_sid of the handler
    hContext,    \* nonlocal context of the handler
    twPc,        \* twilio_receiver: "recv" or "done"
    dgPc,        \* deepgram_receiver: "recv", "extract", "api" or "done"
    turn,        \* the locals of the process call in flight
    hResult,     \* what process returned in the last step, with its arguments
    dgOut,       \* the messages the last step sent to the agent
    dgEvents,    \* the number of agent events deepgram_receiver has taken
    storeLog,    \* the create_context and update_context calls of the last step
    apiLog,      \* the API actions execute_apis has run in this call, with their outcomes
    llmOut,      \* how the LLM call of extract_variables ended in the last step, or "none"
    held,        \* the asyncio.Lock objects that are locked: "global" or a call id
    \* --- the connections and relay loops of one call (handle_twilio_call) ---
    active_calls,     \* the keys of active_calls
    deepgram_ws,      \* nonlocal deepgram_ws: the number of a connection, 0 for None
    reconnect_event,  \* whether reconnect_event is set
    current_language, \* nonlocal current_language
    conns,            \* the voice-session connections opened so far: "open" or "closed"
    dgIter,           \* the connection the async for of deepgram_receiver iterates
    senderPc,         \* deepgram_sender: "run" or "done"
    callPc,           \* handle_twilio_call: "gather", then "done" after the cleanup
    relayOut,         \* what the last step sent, or dropped, on the connections
    reconnectLog,     \* the steps of the language switch taken so far, in order
    twFrames          \* the number of media frames twilio_receiver has taken

trVarsTuple == <<trPc, trNode, trVars, trCtx, trNext>>
rdVarsTuple == <<rdPc, rdTemplate, rdCtx, rdOut1, rdOut2>>

sessVarsTuple == <<contexts, locks, lists, customer, hStreamSid, hCallSid, hContext,
                   twPc, dgPc, turn, hResult, dgOut, dgEvents, storeLog, apiLog,
                   llmOut>>

connVarsTuple == <<deepgram_ws, reconnect_event, current_language, conns, dgIter,
                   senderPc, callPc, reconnectLog, twFrames>>
relayVarsTuple == <<held, active_calls, relayOut, connVarsTuple>>

vars == <<trVarsTuple, rdVarsTuple, sessVarsTuple, relayVarsTuple>>

\* a harness that is not part of the specification being checked stays idle
TransitionIdle ==
    trPc = "idle" /\ trNode = "none" /\ trVars = << >> /\ trCtx = << >>
    /\ trNext = "none"
RenderIdle ==
    rdPc = "idle" /\ rdTemplate = << >> /\ rdCtx = << >> /\ rdOut1 = << >>
    /\ rdOut2 = << >>
SessionIdle ==
    contexts = << >> /\ locks = {} /\ lists = << >> /\ customer = << >>
    /\ hStreamSid = "None" /\ hCallSid = "None" /\ hContext = << >>
    /\ twPc = "idle" /\ dgPc = "idle" /\ turn = << >> /\ hResult = << >>
    /\ dgOut = << >> /\ dgEvents = 0 /\ storeLog = << >> /\ apiLog = << >>
    /\ llmOut = "none"
RelayIdle ==
    held = {} /\ active_calls = {} /\ deepgram_ws = 0 /\ reconnect_event = FALSE
    /\ current_language = "en" /\ conns = << >> /\ dgIter = 0
    /\ senderPc = "idle" /\ callPc = "idle" /\ relayOut = << >>
    /\ reconnectLog = << >> /\ twFrames = 0

-----------------------------------------------------------------------------
(***************************************************************************)
(* Python values.  A value is a tagged tuple, so that values of different  *)
(* Python types are never equal and never compared payload to payload.     *)
(***************************************************************************)
None == <<"none">>
B(b) == <<"bool", b>>
I(n) == <<"int", n>>
S(s) == <<"str", s>>

IsNone(x) == x[1] = "none"
IsBool(x) == x[1] = "bool"
IsInt(x) == x[1] = "int"
IsStr(x) == x[1] = "str"
\* bool is a subclass of int in Python: True == 1, False == 0
IsNum(x) == IsBool(x) \/ IsInt(x)
Num(x) == IF IsBool(x) THEN (IF x[2] THEN 1 ELSE 0) ELSE x[2]

\* bool(x)
Truthy(x) ==
    CASE IsNone(x) -> FALSE
      [] IsBool(x) -> x[2]
      [] IsInt(x) -> x[2] # 0
      [] IsStr(x) -> x[2] # ""

\* x == y
PyEq(x, y) ==
    IF IsNum(x) /\ IsNum(y) THEN Num(x) = Num(y) ELSE x = y

\* x in [list]
PyIn(x, list) == \E i \in 1..Len(list) : PyEq(x, list[i])

\* dict.get(k, default); a dict is a function from its keys to values
Get(d, k, default) == IF k \in DOMAIN d THEN d[k] ELSE default

\* The context argument when update_context returned None (no such call)
NoContext == [none_context |-> None]
HasCtx(c) == c # NoContext

-----------------------------------------------------------------------------
(***************************************************************************)
(* Transition Engine: transition_rules.py                                  *)
(***************************************************************************)
\* v.get(k)
V(v, k) == Get(v, k, None)
\* the rule predicate "v.get(k)"
T(v, k) == Truthy(V(v, k))
\* the rule predicate "c.get(k)"; c.get on a None context raises, and
\* get_next_node skips a rule whose predicate raises
TC(c, k) == HasCtx(c) /\ Truthy(Get(c, k, None))
\* the rule predicate "c.get(k) == x"
CEq(c, k, x) == HasCtx(c) /\ PyEq(Get(c, k, None), x)
\* the rule predicate "c.get(k, default) >= n"; the comparison raises
\* TypeError on None and on a string, and the rule is then skipped
CGe(c, k, default, n) ==
    HasCtx(c) /\ IsNum(Get(c, k, default)) /\ Num(Get(c, k, default)) >= n

\* one TransitionRule (condition already applied to (v, c), target)
R(cond, target) == [cond |-> cond, target |-> target]

GLOBAL_TRIGGERS(v, c) == <<
    R(T(v, "user_requests_live_agent"), "n34"),
    R(T(v, "user_requests_supervisor"), "n34"),
    R(T(v, "user_requests_transfer"), "n34"),
    R(T(v, "user_mentions_attorney"), "n5"),
    R(T(v, "user_represented_by_attorney"), "n5"),
    R(T(v, "user_requests_cease_communication"), "n11"),
    R(T(v, "user_requests_written_only"), "n11"),
    R(T(v, "user_says_wrong_number"), "n69"),
    R(T(v, "wrong_person"), "n69"),
    R(T(v, "user_has_complex_question"), "n34"),
    R(T(v, "user_asks_about_nsf"), "n34"),
    R(T(v, "user_asks_about_escrow"), "n34")
  >>

TRANSITION_RULES(node, v, c) ==
    CASE node = "n61" -> <<
         R(T(v, "is_borrower") \/ T(v, "confirmed_identity"), "n68"),
         R(T(v, "party_name"), "n68"),
         R(T(v, "speaking_to_borrower"), "n68"),
         R(T(v, "user_not_available"), "n8"),
         R(T(v, "call_back_later"), "n8")
       >>
    [] node = "n68" -> <<
         R(T(v, "dob_verified"), "n41"),
         R(T(v, "dob_correct"), "n41"),
         R(T(v, "dob_mismatch"), "n32"),
         R(T(v, "dob_incorrect"), "n32"),
         R(CGe(c, "dob_attempts", I(0), 5), "n34")
       >>
    [] node = "n32" -> <<
         R(TRUE, "n22")
       >>
    [] node = "n22" -> <<
         R(T(v, "dob_verified") \/ T(v, "dob_reconfirmed"), "n41"),
         R(T(v, "dob_correct"), "n41"),
         R(CGe(c, "dob_attempts", I(0), 5), "n34"),
         R(T(v, "dob_still_wrong") \/ T(v, "dob_mismatch"), "n26")
       >>
    [] node = "n26" -> <<
         R(TRUE, "END")
       >>
    [] node = "n41" -> <<
         R(T(v, "mini_miranda_complete"), "n45"),
         R(T(v, "user_acknowledges"), "n45"),
         R(T(v, "proceed_to_business"), "n45")
       >>
    [] node = "n45" -> <<
         R(T(v, "occupancy")
             /\ ~PyIn(V(v, "occupancy"), <<S("N/A"), S("null"), None, S("")>>), "n20"),
         R(T(v, "occupancy_verified"), "n20"),
         R(T(v, "occupancy_confirmed"), "n20"),
         R(T(v, "occupancy_status"), "n20")
       >>
    [] node = "n20" -> <<
         R(PyEq(V(v, "affected_by_disaster"), B(TRUE)), "n37"),
         R(PyEq(V(v, "disaster_impact"), B(TRUE)), "n37"),
         R(PyEq(V(v, "affected_by_disaster"), B(FALSE)), "n28"),
         R(T(v, "not_affected_by_disaster"), "n28"),
         R(T(v, "no_disaster_impact"), "n28")
       >>
    [] node = "n28" -> <<
         R(TRUE, "n49")
       >>
    [] node = "n37" -> <<
         R(T(v, "wants_appointment"), "n56"),
         R(T(v, "schedule_appointment"), "n56"),
         R(T(v, "wants_callback"), "n8"),
         R(T(v, "user_wants_to_end_call"), "n25")
       >>
    [] node = "n49" -> <<
         R(T(v, "user_claims_payment_made"), "n51"),
         R(T(v, "payment_already_sent"), "n51"),
         R(T(v, "user_wants_set_up_later"), "n51"),
         R(T(v, "declined_bank_account_setup_today"), "n51"),
         R(T(v, "will_pay_independently"), "n51"),
         R(T(v, "payment_date_received") /\ T(v, "payment_amount_received"), "n67"),
         R(T(v, "user_provided_payment_amount") /\ T(v, "upd_extracted_payment_date"), "n67"),
         R(T(v, "payment_amount_received")
             /\ T(v, "collection_waterfall_completed")
             /\ T(v, "total_amount_due_informed"), "n67"),
         R(T(v, "borrower_wants_options") /\ T(v, "options_question_asked"), "n23"),
         R(T(v, "borrower_requests_options_directly"), "n23"),
         R(T(v, "needs_assistance") /\ T(v, "options_question_asked"), "n23"),
         R(T(v, "financial_hardship") /\ T(v, "options_question_asked"), "n23"),
         R(T(v, "capture_delinquency_reason"), "n19")
       >>
    [] node = "n19" -> <<
         R(T(v, "reason_captured") \/ T(v, "delinquency_reason"), "n49")
       >>
    [] node = "n67" -> <<
         R(T(v, "borrower_requests_options_directly"), "n23"),
         R(T(v, "user_provided_payment_amount")
             /\ ~PyIn(V(v, "user_provided_payment_amount"), <<S("NA"), S("N/A"), None, S("")>>)
             /\ T(v, "user_provided_payment_date")
             /\ ~PyIn(V(v, "user_provided_payment_date"), <<S("NA"), S("N/A"), None, S("")>>), "n1"),
         R(T(v, "validation_confirmed"), "n1"),
         R(T(v, "user_confirms_amount"), "n1"),
         R(T(v, "details_confirmed"), "n1"),
         R(T(v, "user_wants_to_change_amount"), "n49"),
         R(T(v, "user_wants_to_change_date"), "n49")
       >>
    [] node = "n1" -> <<
         R(T(v, "declined_bank_account_setup_today"), "n51"),
         R(T(v, "user_wants_set_up_later"), "n51"),
         R(T(v, "will_pay_online"), "n51"),
         R(T(v, "will_mail_check"), "n51"),
         R(T(v, "existing_bank_account_confirmed"), "n42"),
         R(T(v, "new_bank_account_confirmed"), "n42"),
         R(T(v, "account_ready"), "n42"),
         R(T(v, "certified_funds_mail_date_confirmed"), "n12"),
         R(CEq(c, "RestrictAutoPayDraft", S("Y")) /\ T(v, "mail_date_confirmed"), "n12")
       >>
    [] node = "n42" -> <<
         R(T(v, "user_says_no"), "n49"),
         R(T(v, "user_declines_authorization"), "n49"),
         R(T(v, "user_wants_to_change_amtdate"), "n49"),
         R(T(v, "user_wants_different_amount"), "n49"),
         R(T(v, "nacha_permission_granted"), "n50"),
         R(T(v, "user_authorizes_payment"), "n50"),
         R(T(v, "user_confirms_authorization"), "n50")
       >>
    [] node = "n50" -> <<
         R(T(v, "payment_processed"), "n51"),
         R(CEq(c, "api_status_code", I(200)), "n51"),
         R(TC(c, "confirmation_number"), "n51"),
         R(TC(c, "api_status_code") /\ ~CEq(c, "api_status_code", I(200)), "n34"),
         R(TC(c, "api_error"), "n34"),
         R(T(v, "payment_failed"), "n34")
       >>
    [] node = "n51" -> <<
         R(T(v, "call_complete"), "n25"),
         R(T(v, "no_more_questions"), "n25"),
         R(T(v, "user_satisfied"), "n25"),
         R(T(v, "goodbye_said"), "n25")
       >>
    [] node = "n23" -> <<
         R(T(v, "user_has_no_other_questions"), "n49"),
         R(T(v, "option_selected"), "n49"),
         R(T(v, "ready_to_pay"), "n49"),
         R(T(v, "wants_appointment"), "n56"),
         R(T(v, "schedule_appointment"), "n56"),
         R(T(v, "wants_callback"), "n8"),
         R(T(v, "needs_more_time"), "n8")
       >>
    [] node = "n12" -> <<
         R(T(v, "user_has_no_other_questions"), "n25"),
         R(T(v, "call_complete"), "n25")
       >>
    [] node = "n34" -> <<
         R(T(v, "transfer_intake_complete"), "n35"),
         R(T(v, "transfer_reason") /\ T(v, "ready_to_transfer"), "n35")
       >>
    [] node = "n35" -> <<
         R(T(v, "user_confirms_transfer"), "n36"),
         R(T(v, "proceed_with_transfer"), "n36"),
         R(T(v, "user_cancels_transfer"), "n49")
       >>
    [] node = "n36" -> <<
         R(T(v, "transfer_completed"), "n2"),
         R(TC(c, "transfer_completed"), "n2")
       >>
    [] node = "n5" -> <<
         R(T(v, "attorney_noted"), "n25"),
         R(TRUE, "n25")
       >>
    [] node = "n11" -> <<
         R(TRUE, "n25")
       >>
    [] node = "n8" -> <<
         R(T(v, "callback_time_confirmed"), "n9"),
         R(T(v, "callback_scheduled"), "n9"),
         R(T(v, "user_declines_callback"), "n25"),
         R(T(v, "no_callback_needed"), "n25")
       >>
    [] node = "n9" -> <<
         R(TRUE, "n25")
       >>
    [] node = "n56" -> <<
         R(T(v, "user_time_preference"), "n6"),
         R(T(v, "preferred_day"), "n6"),
         R(T(v, "preferred_time"), "n6")
       >>
    [] node = "n6" -> <<
         R(CEq(c, "api_status_code", I(200)), "n4"),
         R(T(v, "slots_available"), "n4"),
         R(TC(c, "api_error"), "n34")
       >>
    [] node = "n4" -> <<
         R(T(v, "specific_time_selected"), "n3"),
         R(T(v, "user_selected_slot"), "n3"),
         R(T(v, "user_appt_conflict"), "n56"),
         R(T(v, "none_work"), "n56")
       >>
    [] node = "n3" -> <<
         R(T(v, "appointment_confirmed"), "n62"),
         R(T(v, "appt_booked"), "n62"),
         R(T(v, "user_cancels"), "n56")
       >>
    [] node = "n62" -> <<
         R(TRUE, "n25")
       >>
    [] node = "n69" -> <<
         R(TRUE, "END")
       >>
    [] node = "n25" -> <<
         R(TRUE, "END")
       >>
    [] node = "n24" -> <<
         R(TRUE, "END")
       >>
    [] node = "n2" -> <<
         R(TRUE, "END")
       >>
    [] OTHER -> << >>

\* the mutant of RulesOf for a table without the entry of the standard
\* call ending
RulesOf_NoStandardEnding(current_node, v, c) ==
    IF current_node = "n25" THEN << >> ELSE TRANSITION_RULES(current_node, v, c)

\* TRANSITION_RULES.get(current_node, []): the rule set of a node, empty
\* for a node without an entry
RulesOf(current_node, v, c) == TRANSITION_RULES(current_node, v, c)

\* indexes of the rules whose condition is true
Matching(rules) == {i \in 1..Len(rules) : rules[i].cond}

Min(set) == CHOOSE x \in set : \A y \in set : x <= y

\* mutant of FirstMatch: the last rule that holds wins
FirstMatch_LastWins(rules) ==
    rules[CHOOSE i \in Matching(rules) : \A j \in Matching(rules) : j <= i].target

\* the "for condition, target, description in rules: if condition: return
\* target" loop: the target of the first rule that holds
FirstMatch(rules) == rules[Min(Matching(rules))].target

\* mutant of get_next_node: the node's own rules are checked before the
\* global triggers
get_next_node_NodeFirst(current_node, extracted_vars, context) ==
    LET globals == GLOBAL_TRIGGERS(extracted_vars, context)
        rules == TRANSITION_RULES(current_node, extracted_vars, context)
    IN  IF Matching(rules) # {} THEN FirstMatch(rules)
        ELSE IF Matching(globals) # {} THEN FirstMatch(globals)
        ELSE current_node

get_next_node(current_node, extracted_vars, context) ==
    LET globals == GLOBAL_TRIGGERS(extracted_vars, context)
        rules == RulesOf(current_node, extracted_vars, context)
    IN  IF Matching(globals) # {} THEN FirstMatch(globals)
        ELSE IF Len(rules) = 0 THEN current_node
        ELSE IF Matching(rules) # {} THEN FirstMatch(rules)
        ELSE current_node

-----------------------------------------------------------------------------
(***************************************************************************)
(* Template Renderer: template_render.py.  A text is a sequence of tokens; *)
(* a token is the string of one conditional tag "{%name%}", of one         *)
(* placeholder "{{name}}", of one newline, of one blank, or of one run of  *)
(* other characters.                                                       *)
(***************************************************************************)
NL == "\n"
SP == " "

\* the tag names and placeholder names of the token vocabulary
BaseTagNames == {"es", "promo", "days_late_gt_15"}
\* "{%endes%}" is, for the pattern \{%\s*(\w+)\s*%\}, a tag named "endes"
TagNames == BaseTagNames \cup {"end" \o n : n \in BaseTagNames}
PlaceholderNames == {"note", "FirstName"}

TagTok(name) == "{%" \o name \o "%}"
VarTok(name) == "{{" \o name \o "}}"

\* tag_pattern / the placeholder pattern matching one token
IsTag(tok) == \E n \in TagNames : tok = TagTok(n)
TagNameOf(tok) == CHOOSE n \in TagNames : tok = TagTok(n)
IsVar(tok) == \E n \in PlaceholderNames : tok = VarTok(n)
VarNameOf(tok) == CHOOSE n \in PlaceholderNames : tok = VarTok(n)
\* tag_name.startswith('end')
StartsWithEnd(name) == \E n \in TagNames : name = "end" \o n

\* str.lower() on the strings of the model
Lower(s) == CASE s = "Today" -> "today" [] s = "Tonight" -> "tonight" [] OTHER -> s

\* datetime.now(timezone.utc).strftime("%Y-%m-%d")
NowDate == "2025-01-15"

\* int(x) / float(x) on a string: the decimal strings of the model
DecimalStrings == [s \in {"0", "10", "16", "31", "46"} |->
                      CASE s = "0" -> 0 [] s = "10" -> 10 [] s = "16" -> 16
                        [] s = "31" -> 31 [] s = "46" -> 46]
\* int(x) raises TypeError on None and ValueError on a non-decimal string
IntRaises(x) == IsNone(x) \/ (IsStr(x) /\ x[2] \notin DOMAIN DecimalStrings)
IntOf(x) == IF IsStr(x) THEN DecimalStrings[x[2]] ELSE Num(x)

\* results of a CONDITIONAL_MAPPINGS predicate
Res(b) == IF b THEN "true" ELSE "false"
\* lambda ctx: int(ctx.get(k, 0)) <op> n
IntCmp(ctx, k, leq, n) ==
    LET x == Get(ctx, k, I(0))
    IN  IF IntRaises(x) THEN "raise"
        ELSE Res(IF leq THEN IntOf(x) <= n ELSE IntOf(x) > n)
\* lambda ctx: ctx.get(k, 0) <op> n, which raises TypeError unless numeric
NumCmp(ctx, k, geq, n) ==
    LET x == Get(ctx, k, I(0))
    IN  IF ~IsNum(x) THEN "raise"
        ELSE Res(IF geq THEN Num(x) >= n ELSE Num(x) > n)
\* lambda ctx: float(ctx.get("FeesBalance", 0) or 0) > 0
FeesPositive(ctx) ==
    LET x == Get(ctx, "FeesBalance", I(0))
        y == IF Truthy(x) THEN x ELSE I(0)
    IN  IF IntRaises(y) THEN "raise" ELSE Res(IntOf(y) > 0)
Negate(r) == CASE r = "true" -> "false" [] r = "false" -> "true" [] OTHER -> r

_is_payment_today(ctx) ==
    LET a == Get(ctx, "upd_extracted_payment_date", None)
        payment_date == IF Truthy(a) THEN a
                        ELSE Get(ctx, "user_provided_payment_date", None)
        cd == Get(ctx, "current_date", None)
        today == IF Truthy(cd) THEN cd ELSE S(NowDate)
    IN  IF ~Truthy(payment_date) THEN "false"
        ELSE IF ~IsStr(payment_date) THEN "raise"
        ELSE IF Lower(payment_date[2]) \in
                    {"today", "tonight", "end of day", "by the end of the day"}
             THEN "true"
        ELSE Res(PyEq(payment_date, today))

RegisteredTags ==
    {"en", "es", "english_examples", "spanish_examples",
     "essex_loan_acct_available", "essex_loan_acct_unavailable",
     "upd_current_dated_payment", "upd_future_dated_payment",
     "RestrictAutoPayDraft", "NoRestrictAutoPayDraft",
     "days_late_leq_15", "days_late_gt_15", "days_late_gt_30",
     "days_late_gt_45", "days_late_leq_45",
     "is_birthday", "is_anniversary", "is_veteran", "not_birthday",
     "not_anniversary", "firstprompt", "reprompt",
     "user_appt_conflict", "no_appt_conflict", "name_match", "name_no_match",
     "has_existing_account", "no_existing_account", "using_new_account",
     "using_existing_account", "payment_method_checking",
     "payment_method_savings", "disaster_affected", "not_disaster_affected",
     "transfer_reason_provided", "dob_attempt_1", "dob_attempt_2",
     "has_fees", "no_fees"}

\* CONDITIONAL_MAPPINGS[name](ctx): "true", "false", or "raise" when the
\* lambda raises
CONDITIONAL_MAPPINGS(name, ctx) ==
    LET flag(k) == Res(Truthy(Get(ctx, k, B(FALSE))))
        has(k) == Res(Truthy(Get(ctx, k, None)))
        is(k, x) == Res(PyEq(Get(ctx, k, None), x))
        lang(x) == Res(PyEq(Get(ctx, "language", S("en")), S(x)))
    IN  CASE name \in {"en", "english_examples"} -> lang("en")
          [] name \in {"es", "spanish_examples"} -> lang("es")
          [] name \in {"essex_loan_acct_available", "has_existing_account"} ->
                 has("AccountNumberLastFour")
          [] name \in {"essex_loan_acct_unavailable", "no_existing_account"} ->
                 Negate(has("AccountNumberLastFour"))
          [] name = "upd_current_dated_payment" -> _is_payment_today(ctx)
          [] name = "upd_future_dated_payment" -> Negate(_is_payment_today(ctx))
          [] name = "RestrictAutoPayDraft" -> is("RestrictAutoPayDraft", S("Y"))
          [] name = "NoRestrictAutoPayDraft" ->
                 Negate(is("RestrictAutoPayDraft", S("Y")))
          [] name = "days_late_leq_15" -> IntCmp(ctx, "DaysLate", TRUE, 15)
          [] name = "days_late_gt_15" -> IntCmp(ctx, "DaysLate", FALSE, 15)
          [] name = "days_late_gt_30" -> IntCmp(ctx, "DaysLate", FALSE, 30)
          [] name = "days_late_gt_45" -> IntCmp(ctx, "DaysLate", FALSE, 45)
          [] name = "days_late_leq_45" -> IntCmp(ctx, "DaysLate", TRUE, 45)
          [] name = "is_birthday" -> flag("is_birthday")
          [] name = "is_anniversary" -> flag("is_anniversary")
          [] name = "is_veteran" -> flag("is_veteran")
          [] name = "not_birthday" -> Negate(flag("is_birthday"))
          [] name = "not_anniversary" -> Negate(flag("is_anniversary"))
          [] name = "firstprompt" -> Res(PyEq(Get(ctx, "prompt_count", I(0)), I(0)))
          [] name = "reprompt" -> NumCmp(ctx, "prompt_count", FALSE, 0)
          [] name = "user_appt_conflict" -> flag("appt_conflict")
          [] name = "no_appt_conflict" -> Negate(flag("appt_conflict"))
          [] name = "name_match" -> flag("name_match")
          [] name = "name_no_match" -> Negate(flag("name_match"))
          [] name = "using_new_account" -> flag("new_bank_account_confirmed")
          [] name = "using_existing_account" ->
                 flag("existing_bank_account_confirmed")
          [] name = "payment_method_checking" ->
                 is("new_account_payment_method", S("checking"))
          [] name = "payment_method_savings" ->
                 is("new_account_payment_method", S("savings"))
          [] name = "disaster_affected" -> flag("affected_by_disaster")
          [] name = "not_disaster_affected" ->
                 Negate(flag("affected_by_disaster"))
          [] name = "transfer_reason_provided" -> has("transfer_reason")
          [] name = "dob_attempt_1" ->
                 Res(PyEq(Get(ctx, "dob_attempts", I(0)), I(1)))
          [] name = "dob_attempt_2" -> NumCmp(ctx, "dob_attempts", TRUE, 2)
          [] name = "has_fees" -> FeesPositive(ctx)
          [] name = "no_fees" -> Negate(FeesPositive(ctx))

\* indexes of the opening tag of a name / of its closing tag
OpenAt(text, name) == {i \in 1..Len(text) : text[i] = TagTok(name)}
CloseAfter(text, name, i) ==
    {j \in (i + 1)..Len(text) : text[j] = TagTok("end" \o name)}

\* mutant of remove_block: only the first block of the name is removed
\* (re.sub with count=1)
remove_block_FirstOnly(template, tag_name) ==
    IF OpenAt(template, tag_name) = {} THEN template
    ELSE LET i == Min(OpenAt(template, tag_name))
         IN  IF CloseAfter(template, tag_name, i) = {} THEN template
             ELSE LET j == Min(CloseAfter(template, tag_name, i))
                  IN  SubSeq(template, 1, i - 1)
                      \o SubSeq(template, j + 1, Len(template))

RECURSIVE remove_block(_, _)
\* re.sub(open .*? close, ''): the same matches, replaced by nothing
remove_block(template, tag_name) ==
    IF OpenAt(template, tag_name) = {} THEN template
    ELSE LET i == Min(OpenAt(template, tag_name))
         IN  IF CloseAfter(template, tag_name, i) = {} THEN template
             ELSE LET j == Min(CloseAfter(template, tag_name, i))
                  IN  SubSeq(template, 1, i - 1)
                      \o remove_block(SubSeq(template, j + 1, Len(template)),
                                      tag_name)

\* mutant of keep_block: the block is dropped with its content (fail-closed)
keep_block_DropsContent(template, tag_name) == remove_block(template, tag_name)

RECURSIVE keep_block(_, _)
\* re.sub(open (.*?) close, r'\1'): leftmost opening tag, the nearest
\* closing tag after it, then on from behind that closing tag
keep_block(template, tag_name) ==
    IF OpenAt(template, tag_name) = {} THEN template
    ELSE LET i == Min(OpenAt(template, tag_name))
         IN  IF CloseAfter(template, tag_name, i) = {} THEN template
             ELSE LET j == Min(CloseAfter(template, tag_name, i))
                  IN  SubSeq(template, 1, i - 1)
                      \o SubSeq(template, i + 1, j - 1)
                      \o keep_block(SubSeq(template, j + 1, Len(template)),
                                    tag_name)

\* the value a failed render stands for (the exception leaves render_template)
Raised == <<"<raised>">>

\* set(re.findall(tag_pattern, template))
TagsFound(template) ==
    {TagNameOf(template[i]) : i \in {k \in 1..Len(template) : IsTag(template[k])}}

\* the orders in which "for tag_name in tags_found" may visit a set
Orders(set) ==
    {o \in [1..Cardinality(set) -> set] : \A n \in set : \E i \in DOMAIN o : o[i] = n}

RECURSIVE ProcessTags(_, _, _)
\* the loop body of process_conditionals over the tag names left in order
ProcessTags(result, order, context) ==
    IF order = << >> THEN result
    ELSE LET tag_name == Head(order)
             rest == Tail(order)
         IN  IF StartsWithEnd(tag_name) THEN ProcessTags(result, rest, context)
             ELSE IF tag_name \in RegisteredTags
             THEN LET should_keep == CONDITIONAL_MAPPINGS(tag_name, context)
                  IN  CASE should_keep = "raise" -> Raised
                        [] should_keep = "true" ->
                             ProcessTags(keep_block(result, tag_name), rest, context)
                        [] should_keep = "false" ->
                             ProcessTags(remove_block(result, tag_name), rest, context)
             ELSE ProcessTags(keep_block(result, tag_name), rest, context)

\* order: the iteration order of the set tags_found
process_conditionals(template, context, order) ==
    ProcessTags(template, order, context)

\* str(value)
Str(x) ==
    CASE IsStr(x) -> x[2]
      [] IsInt(x) -> ToString(x[2])
      [] IsBool(x) -> IF x[2] THEN "True" ELSE "False"
      [] IsNone(x) -> "None"

\* the tokens of a value's string: a string of the model is one token,
\* the empty string none
Tokens(s) == IF s = "" THEN << >> ELSE <<s>>

RECURSIVE substitute_variables(_, _)
substitute_variables(template, context) ==
    IF template = << >> THEN << >>
    ELSE LET tok == Head(template)
             value == Get(context, VarNameOf(tok), None)
             repl == IF ~IsVar(tok) THEN <<tok>>
                     ELSE IF IsNone(value) THEN << >>
                     ELSE Tokens(Str(value))
         IN  repl \o substitute_variables(Tail(template), context)

RECURSIVE CollapseNewlines(_, _)
\* re.sub(r'\n{3,}', '\n\n', text); run is the length of the newline run
\* that ends just before the head of text
CollapseNewlines(text, run) ==
    IF text = << >> THEN << >>
    ELSE IF Head(text) = NL
         THEN (IF run >= 2 THEN << >> ELSE <<NL>>)
              \o CollapseNewlines(Tail(text), run + 1)
         ELSE <<Head(text)>> \o CollapseNewlines(Tail(text), 0)

RECURSIVE SplitLines(_)
\* text.split('\n'): a sequence of lines, each a sequence of tokens
SplitLines(text) ==
    IF \A i \in 1..Len(text) : text[i] # NL THEN <<text>>
    ELSE LET k == Min({i \in 1..Len(text) : text[i] = NL})
         IN  <<SubSeq(text, 1, k - 1)>> \o SplitLines(SubSeq(text, k + 1, Len(text)))

\* line.strip() == ''
IsBlankLine(line) == \A i \in 1..Len(line) : line[i] \in {SP, "\t"}

RECURSIVE PopLeading(_)
PopLeading(lines) ==
    IF lines # << >> /\ IsBlankLine(Head(lines)) THEN PopLeading(Tail(lines))
    ELSE lines

RECURSIVE PopTrailing(_)
PopTrailing(lines) ==
    IF lines # << >> /\ IsBlankLine(lines[Len(lines)])
    THEN PopTrailing(SubSeq(lines, 1, Len(lines) - 1))
    ELSE lines

RECURSIVE JoinLines(_)
\* '\n'.join(lines)
JoinLines(lines) ==
    IF lines = << >> THEN << >>
    ELSE IF Len(lines) = 1 THEN lines[1]
    ELSE lines[1] \o <<NL>> \o JoinLines(Tail(lines))

clean_whitespace(text) ==
    LET lines == SplitLines(CollapseNewlines(text, 0))
        cleaned_lines == [i \in 1..Len(lines) |->
                             IF IsBlankLine(lines[i]) THEN << >> ELSE lines[i]]
    IN  JoinLines(PopTrailing(PopLeading(cleaned_lines)))

render_template(template, context, order) ==
    IF template = << >> THEN << >>
    ELSE LET rendered == process_conditionals(template, context, order)
         IN  IF rendered = Raised THEN Raised
             ELSE clean_whitespace(substitute_variables(rendered, context))

RECURSIVE Flatten(_)
\* the string a token sequence stands for
Flatten(text) == IF text = << >> THEN "" ELSE Head(text) \o Flatten(Tail(text))

-----------------------------------------------------------------------------
(***************************************************************************)
(* Inputs of the Transition Engine harness.                                *)
(***************************************************************************)
NodeIds == {"n61", "n68", "n32", "n22", "n26", "n41", "n45", "n20", "n28",
            "n37", "n49", "n19", "n67", "n1", "n42", "n50", "n51", "n23",
            "n12", "n34", "n35", "n36", "n5", "n11", "n8", "n9", "n56", "n6",
            "n4", "n3", "n62", "n69", "n25", "n24", "n2"}

\* a node id that has no entry in TRANSITION_RULES
UnknownNode == "n99"

GlobalNames == {"user_requests_live_agent", "user_requests_supervisor",
                "user_requests_transfer", "user_mentions_attorney",
                "user_represented_by_attorney",
                "user_requests_cease_communication",
                "user_requests_written_only", "user_says_wrong_number",
                "wrong_person", "user_has_complex_question",
                "user_asks_about_nsf", "user_asks_about_escrow"}

\* the extracted variables the rules of a node read
NodeVars(node) ==
    CASE node = "n61" -> {"is_borrower", "confirmed_identity", "party_name", "speaking_to_borrower",
         "user_not_available", "call_back_later"}
    [] node = "n68" -> {"dob_verified", "dob_correct", "dob_mismatch", "dob_incorrect"}
    [] node = "n32" -> {}
    [] node = "n22" -> {"dob_verified", "dob_reconfirmed", "dob_correct", "dob_still_wrong",
         "dob_mismatch"}
    [] node = "n26" -> {}
    [] node = "n41" -> {"mini_miranda_complete", "user_acknowledges", "proceed_to_business"}
    [] node = "n45" -> {"occupancy", "occupancy_verified", "occupancy_confirmed", "occupancy_status"}
    [] node = "n20" -> {"affected_by_disaster", "disaster_impact", "not_affected_by_disaster",
         "no_disaster_impact"}
    [] node = "n28" -> {}
    [] node = "n37" -> {"wants_appointment", "schedule_appointment", "wants_callback",
         "user_wants_to_end_call"}
    [] node = "n49" -> {"user_claims_payment_made", "payment_already_sent", "user_wants_set_up_later",
         "declined_bank_account_setup_today", "will_pay_independently",
         "payment_date_received", "payment_amount_received",
         "user_provided_payment_amount", "upd_extracted_payment_date",
         "collection_waterfall_completed", "total_amount_due_informed",
         "borrower_wants_options", "options_question_asked",
         "borrower_requests_options_directly", "needs_assistance", "financial_hardship",
         "capture_delinquency_reason"}
    [] node = "n19" -> {"reason_captured", "delinquency_reason"}
    [] node = "n67" -> {"borrower_requests_options_directly", "user_provided_payment_amount",
         "user_provided_payment_date", "validation_confirmed", "user_confirms_amount",
         "details_confirmed", "user_wants_to_change_amount", "user_wants_to_change_date"}
    [] node = "n1" -> {"declined_bank_account_setup_today", "user_wants_set_up_later",
         "will_pay_online", "will_mail_check", "existing_bank_account_confirmed",
         "new_bank_account_confirmed", "account_ready",
         "certified_funds_mail_date_confirmed", "mail_date_confirmed"}
    [] node = "n42" -> {"user_says_no", "user_declines_authorization", "user_wants_to_change_amtdate",
         "user_wants_different_amount", "nacha_permission_granted",
         "user_authorizes_payment", "user_confirms_authorization"}
    [] node = "n50" -> {"payment_processed", "payment_failed"}
    [] node = "n51" -> {"call_complete", "no_more_questions", "user_satisfied", "goodbye_said"}
    [] node = "n23" -> {"user_has_no_other_questions", "option_selected", "ready_to_pay",
         "wants_appointment", "schedule_appointment", "wants_callback", "needs_more_time"}
    [] node = "n12" -> {"user_has_no_other_questions", "call_complete"}
    [] node = "n34" -> {"transfer_intake_complete", "transfer_reason", "ready_to_transfer"}
    [] node = "n35" -> {"user_confirms_transfer", "proceed_with_transfer", "user_cancels_transfer"}
    [] node = "n36" -> {"transfer_completed"}
    [] node = "n5" -> {"attorney_noted"}
    [] node = "n11" -> {}
    [] node = "n8" -> {"callback_time_confirmed", "callback_scheduled", "user_declines_callback",
         "no_callback_needed"}
    [] node = "n9" -> {}
    [] node = "n56" -> {"user_time_preference", "preferred_day", "preferred_time"}
    [] node = "n6" -> {"slots_available"}
    [] node = "n4" -> {"specific_time_selected", "user_selected_slot", "user_appt_conflict",
         "none_work"}
    [] node = "n3" -> {"appointment_confirmed", "appt_booked", "user_cancels"}
    [] node = "n62" -> {}
    [] node = "n69" -> {}
    [] node = "n25" -> {}
    [] node = "n24" -> {}
    [] node = "n2" -> {}
    [] OTHER -> {}

\* bounds of the harness inputs
MaxFlags == 2
MaxAttempts == 6

\* the values an extracted variable is tried with
ValuesOf(k) ==
    CASE k \in {"occupancy", "user_provided_payment_amount",
                "user_provided_payment_date"} ->
             {S("x"), S("NA"), S("N/A"), S("")}
      [] k \in {"affected_by_disaster", "disaster_impact"} ->
             {B(TRUE), B(FALSE)}
      [] OTHER -> {B(TRUE)}

RECURSIVE SubsetsUpTo(_, _)
SubsetsUpTo(set, n) ==
    IF n = 0 THEN {{}}
    ELSE LET smaller == SubsetsUpTo(set, n - 1)
         IN  smaller \cup {s \cup {x} : s \in smaller, x \in set}

\* the maps from keys to one of the values of each key
RECURSIVE MapsOver(_)
MapsOver(keys) ==
    IF keys = {} THEN {[k \in {} |-> None]}
    ELSE LET k == CHOOSE x \in keys : TRUE
         IN  {(k :> val) @@ f : val \in ValuesOf(k), f \in MapsOver(keys \ {k})}

\* every extraction that sets at most MaxFlags of the global flags and of the
\* variables the node's rules read
ExtractedInputs(node) ==
    UNION {MapsOver(keys) :
              keys \in SubsetsUpTo(GlobalNames \cup NodeVars(node), MaxFlags)}

\* the context fields the rules of a node read, with the values tried
ContextInputs(node) ==
    {NoContext} \cup
    CASE node \in {"n68", "n22"} ->
             {[dob_attempts |-> I(n)] : n \in 0..MaxAttempts}
             \cup {[dob_attempts |-> None], [other |-> None]}
      [] node \in {"n50", "n6"} ->
             {[api_status_code |-> a, api_error |-> e, confirmation_number |-> n] :
                 a \in {None, I(200), I(500)}, e \in {None, S("Status 500")},
                 n \in {None, S("C1")}}
      [] node = "n1" ->
             {[RestrictAutoPayDraft |-> S(r)] : r \in {"N", "Y"}}
      [] node = "n36" ->
             {[transfer_completed |-> B(b)] : b \in BOOLEAN}
      [] OTHER -> {[dob_attempts |-> I(0)]}

-----------------------------------------------------------------------------
(***************************************************************************)
(* SpecTransition: get_next_node applied to every input of the harness.    *)
(***************************************************************************)
TransitionInit ==
    /\ trPc = "call"
    /\ trNode \in NodeIds \cup {UnknownNode}
    /\ trVars \in ExtractedInputs(trNode)
    /\ trCtx \in ContextInputs(trNode)
    /\ trNext = "none"
    /\ RenderIdle /\ SessionIdle /\ RelayIdle

GetNextNodeCall ==
    /\ trPc = "call"
    /\ trNext' = get_next_node(trNode, trVars, trCtx)
    /\ trPc' = "returned"
    /\ UNCHANGED <<trNode, trVars, trCtx, rdVarsTuple, sessVarsTuple, relayVarsTuple>>

TransitionNext == GetNextNodeCall

SpecTransition == TransitionInit /\ [][TransitionNext]_vars

-----------------------------------------------------------------------------
(***************************************************************************)
(* SpecRender: render_template applied to every template and context of    *)
(* the harness, and applied again to its own output.                       *)
(***************************************************************************)
MaxTemplateLen == 4
MaxBlankLen == 7

RenderAlphabet == {"A", "B", NL, TagTok("es"), TagTok("endes"), TagTok("promo"),
                   TagTok("endpromo"), TagTok("days_late_gt_15"), VarTok("note")}
BlankAlphabet == {"A", SP, NL}
SeqsUpTo(set, n) == UNION {[1..k -> set] : k \in 0..n}
TemplateInputs ==
    SeqsUpTo(RenderAlphabet, MaxTemplateLen) \cup SeqsUpTo(BlankAlphabet, MaxBlankLen)

Contains(text, tok) == \E i \in 1..Len(text) : text[i] = tok

\* the contexts a template is rendered with: the fields it reads, each with
\* the values tried
RenderContexts(template) ==
    {[language |-> l, note |-> n, DaysLate |-> d, FirstName |-> S("Ann")] :
        l \in IF Contains(template, TagTok("es")) THEN {S("en"), S("es")}
              ELSE {S("en")},
        n \in IF Contains(template, VarTok("note"))
              THEN {None, S("x"), S(VarTok("FirstName"))}
              ELSE {None},
        d \in IF Contains(template, TagTok("days_late_gt_15"))
              THEN {I(0), I(16), None}
              ELSE {I(0)}}

RenderInit ==
    /\ rdPc = "start"
    /\ rdTemplate \in TemplateInputs
    /\ rdCtx \in RenderContexts(rdTemplate)
    /\ rdOut1 = << >>
    /\ rdOut2 = << >>
    /\ TransitionIdle /\ SessionIdle /\ RelayIdle

RenderOnce ==
    /\ rdPc = "start"
    /\ \E order \in Orders(TagsFound(rdTemplate)) :
           rdOut1' = render_template(rdTemplate, rdCtx, order)
    /\ rdPc' = "once"
    /\ UNCHANGED <<rdTemplate, rdCtx, rdOut2, trVarsTuple, sessVarsTuple, relayVarsTuple>>

\* the output of the first call is rendered with the same context
RenderAgain ==
    /\ rdPc = "once"
    /\ rdOut1 # Raised
    /\ \E order \in Orders(TagsFound(rdOut1)) :
           rdOut2' = render_template(rdOut1, rdCtx, order)
    /\ rdPc' = "twice"
    /\ UNCHANGED <<rdTemplate, rdCtx, rdOut1, trVarsTuple, sessVarsTuple, relayVarsTuple>>

RenderNext == RenderOnce \/ RenderAgain

SpecRender == RenderInit /\ [][RenderNext]_vars

-----------------------------------------------------------------------------
(***************************************************************************)
(* Context Store: context_manager.py.  _contexts is a function from the    *)
(* call ids that have a context to their dict; _locks is the set of call   *)
(* ids that have a lock.  No operation awaits anything while it holds a    *)
(* lock, so under the single-threaded event loop a lock is never found     *)
(* taken and every operation runs as one step.  A list object is a slot of *)
(* `lists`, and a dict holds a reference to it, so that the shallow        *)
(* dict.copy() of get_context shares the transcript list with the store.   *)
(***************************************************************************)
\* the empty dict
EmptyDict == [k \in {} |-> None]
\* {**d, **u}, and d.update(u)
Overlay(d, u) ==
    [k \in DOMAIN d \cup DOMAIN u |-> IF k \in DOMAIN u THEN u[k] ELSE d[k]]
\* a reference to the list object in slot n of lists
Ref(n) == <<"ref", n>>

\* datetime.now(timezone.utc) as isoformat(), %A and %I:%M %p
NowIso == "2025-01-15T10:00:00+00:00"
NowDay == "Wednesday"
NowTime == "10:00 AM"

\* the dict literal of create_context before **initial_data
DefaultContext(call_sid, transcript) ==
    [call_sid |-> S(call_sid), created_at |-> S(NowIso),
     current_node |-> S("n61"), language |-> S("en"),
     current_date |-> S(NowDate), current_day_of_week |-> S(NowDay),
     current_time |-> S(NowTime), transcript |-> transcript,
     extracted_dob |-> None, party_name |-> None, dob_verified |-> B(FALSE),
     dob_attempts |-> I(0), mini_miranda_complete |-> B(FALSE),
     occupancy_verified |-> B(FALSE), occupancy_status |-> None,
     affected_by_disaster |-> None, payment_date_received |-> B(FALSE),
     payment_amount_received |-> B(FALSE),
     user_provided_payment_amount |-> None,
     upd_extracted_payment_date |-> None, new_routing_number |-> S("N/A"),
     new_account_number |-> S("N/A"), new_account_payment_method |-> None,
     existing_bank_account_confirmed |-> B(FALSE),
     new_bank_account_confirmed |-> B(FALSE),
     new_routing_number_confirmed |-> B(FALSE),
     declined_bank_account_setup_today |-> B(FALSE),
     user_claims_payment_made |-> B(FALSE),
     user_wants_set_up_later |-> B(FALSE), borrower_wants_options |-> B(FALSE),
     nacha_permission_granted |-> B(FALSE), payment_processed |-> B(FALSE),
     confirmation_number |-> None, transfer_completed |-> B(FALSE),
     transfer_reason |-> None, callback_scheduled |-> B(FALSE),
     callback_time |-> None, appt_scheduled_success |-> B(FALSE),
     delinquency_reason |-> None, api_status_code |-> None,
     api_error |-> None]

\* the mutant of create_context that keeps a context the call already has
create_context_KeepsExisting(ctxs, call_sid, initial_data, transcript) ==
    IF call_sid \in DOMAIN ctxs THEN ctxs
    ELSE [i \in DOMAIN ctxs \cup {call_sid} |->
             IF i = call_sid
             THEN Overlay(DefaultContext(call_sid, transcript), initial_data)
             ELSE ctxs[i]]

\* the mutant of delete_lock that leaves the lock of a deleted call in _locks
delete_lock_Leaves(lks, call_sid) == lks

\* _locks after delete_context(call_sid): the lock of the call is deleted
\* when there is one
delete_lock(lks, call_sid) == lks \ {call_sid}

\* _locks after create_context(call_sid): a new asyncio.Lock under the id,
\* in the same critical section that stores the context
create_lock(lks, call_sid) == lks \cup {call_sid}

\* _contexts after create_context(call_sid, initial_data); transcript is the
\* reference to the fresh list the dict literal creates
create_context(ctxs, call_sid, initial_data, transcript) ==
    [i \in DOMAIN ctxs \cup {call_sid} |->
        IF i = call_sid
        THEN Overlay(DefaultContext(call_sid, transcript), initial_data)
        ELSE ctxs[i]]

\* the value get_context returns: a shallow copy, or None
get_context(ctxs, call_sid) ==
    IF call_sid \in DOMAIN ctxs THEN ctxs[call_sid] ELSE NoContext

\* the mutant of FilteredUpdates that filters nothing
FilteredUpdates_KeepsNone(updates) == updates

\* filtered_updates of update_context
FilteredUpdates(updates) ==
    [k \in {x \in DOMAIN updates : ~IsNone(updates[x])} |-> updates[k]]

\* _contexts after update_context(call_sid, updates); it returns
\* get_context of the result
update_context(ctxs, call_sid, updates) ==
    IF call_sid \notin DOMAIN ctxs THEN ctxs
    ELSE [ctxs EXCEPT ![call_sid] = Overlay(@, FilteredUpdates(updates))]

\* one transcript entry (the timestamp is not modelled)
Entry(role, content) == [role |-> role, content |-> content]

\* lists after append_transcript(call_sid, role, content)
append_transcript(ctxs, lsts, call_sid, role, content) ==
    IF call_sid \notin DOMAIN ctxs THEN lsts
    ELSE [lsts EXCEPT ![ctxs[call_sid]["transcript"][2]] =
             Append(@, Entry(role, content))]

\* transcript[-last_n:]
LastN(seq, n) ==
    IF Len(seq) <= n THEN seq ELSE SubSeq(seq, Len(seq) - n + 1, Len(seq))

\* the value get_transcript(call_sid, last_n) returns; "if last_n" is
\* false for None and for 0, which 0 stands for here
get_transcript(ctxs, lsts, call_sid, last_n) ==
    IF call_sid \notin DOMAIN ctxs THEN << >>
    ELSE IF last_n = 0 THEN lsts[ctxs[call_sid]["transcript"][2]]
    ELSE LastN(lsts[ctxs[call_sid]["transcript"][2]], last_n)

\* the mutant of set_current_node that makes a context for a call that has
\* none
set_current_node_Creates(ctxs, call_sid, node_id) ==
    [i \in DOMAIN ctxs \cup {call_sid} |->
        IF i = call_sid
        THEN Overlay(get_context(ctxs, call_sid), [current_node |-> S(node_id)])
        ELSE ctxs[i]]

\* _contexts after set_current_node(call_sid, node_id)
set_current_node(ctxs, call_sid, node_id) ==
    IF call_sid \notin DOMAIN ctxs THEN ctxs
    ELSE [ctxs EXCEPT ![call_sid] = Overlay(@, [current_node |-> S(node_id)])]

\* the value get_current_node(call_sid) returns
get_current_node(ctxs, call_sid) ==
    IF call_sid \notin DOMAIN ctxs THEN "n61"
    ELSE Get(ctxs[call_sid], "current_node", S("n61"))[2]

\* _contexts after increment_counter(call_sid, counter_name)
\* the mutant of increment_counter that writes back a value read before
\* the calls that came in between
increment_counter_Stale(ctxs, call_sid, counter_name) ==
    IF call_sid \notin DOMAIN ctxs THEN ctxs
    ELSE [ctxs EXCEPT ![call_sid] = Overlay(@, (counter_name :> I(1)))]

increment_counter(ctxs, call_sid, counter_name) ==
    IF call_sid \notin DOMAIN ctxs THEN ctxs
    ELSE [ctxs EXCEPT ![call_sid] =
             Overlay(@, (counter_name :> I(Num(Get(@, counter_name, I(0))) + 1)))]

-----------------------------------------------------------------------------
(***************************************************************************)
(* Node Orchestrator: node_engine.py.  The node/prompt catalog             *)
(* (outbound_config.json) is a document loaded at start-up; the model uses *)
(* a small catalog with the three things the code reads from a node: its   *)
(* variables, its apis and its prompt.  So that a turn which enters a node *)
(* with an api lies within a few turns of the greeting, the catalog gives  *)
(* the transfer intake node n34 a POST api next to the payment node n50    *)
(* and the slot lookup node n6.                                            *)
(***************************************************************************)
\* node['details']['variables']: the variables the node's rules read
CatalogVariables(node) == NodeVars(node)
\* node['details']['apis']: "post", "get" or none
CatalogApis(node) ==
    CASE node \in {"n50", "n34"} -> "post"
      [] node = "n6" -> "get"
      [] OTHER -> "none"
\* len(node['details']['apis']): the payment node declares two actions of
\* its kind, the other nodes with an api one
CatalogApiCount(node) ==
    CASE node = "n50" -> 2
      [] CatalogApis(node) # "none" -> 1
      [] OTHER -> 0
\* node['details']['prompt']; n32 has none
CatalogPrompt(node) ==
    CASE node = "n32" -> << >>
      [] node = "n68" -> <<TagTok("es"), "B", TagTok("endes"), "A">>
      [] OTHER -> <<"A", VarTok("FirstName")>>

\* initial_data of initialize_call
initial_data(customer_data, agent_data, client_data) ==
    [LoanID |-> Get(customer_data, "LoanID", None),
     FirstName |-> Get(customer_data, "FirstName", None),
     LastName |-> Get(customer_data, "LastName", None),
     TotalAmountDue |-> Get(customer_data, "TotalAmountDue", None),
     MonthlyPayment |-> Get(customer_data, "MonthlyPayment", None),
     AccountNumberLastFour |-> Get(customer_data, "AccountNumberLastFour", None),
     DOB |-> Get(customer_data, "DOB", None),
     PropertyAddress |-> Get(customer_data, "PropertyAddress", None),
     RestrictAutoPayDraft |-> Get(customer_data, "RestrictAutoPayDraft", S("N")),
     DaysLate |-> Get(customer_data, "DaysLate", I(0)),
     FeesBalance |-> Get(customer_data, "FeesBalance", I(0)),
     NextPaymentDueDate |-> Get(customer_data, "NextPaymentDueDate", None),
     EscrowBalance |-> Get(customer_data, "EscrowBalance", None),
     PrincipalBalance |-> Get(customer_data, "PrincipalBalance", None),
     AIAgentFullName |-> Get(agent_data, "name", None),
     AgentName |-> Get(agent_data, "name", None),
     agent_id |-> Get(agent_data, "id", None),
     CompanyName |-> Get(client_data, "CompanyName", None),
     LenderID |-> Get(client_data, "LenderID", None)]

\* the cleaned dict of extract_variables: null, "N/A" and "null" are dropped
Cleaned(answer) ==
    [k \in {x \in DOMAIN answer :
               answer[x] \notin {None, S("N/A"), S("null")}} |-> answer[k]]

\* re.sub(r'[^0-9]', '', s) for the date strings of the model
Digits(s) ==
    CASE s = "1980-01-01" -> "19800101"
      [] s = "01/01/1980" -> "01011980"
      [] s = "1999-12-31" -> "19991231"
      [] OTHER -> ""

\* normalize_dob nested in process: None for a falsy value, the digits when
\* there are eight of them, else the stripped lower-case string
normalize_dob(dob_str) ==
    IF ~Truthy(dob_str) THEN None
    ELSE IF Digits(dob_str[2]) # "" THEN S(Digits(dob_str[2]))
    ELSE S(Lower(dob_str[2]))

\* step 4 of process: the DOB comparison at n68
DobChecked(node_id, extracted, context) ==
    IF node_id = "n68" /\ T(extracted, "extracted_dob")
    THEN LET normalized_extracted == normalize_dob(V(extracted, "extracted_dob"))
             normalized_on_file == normalize_dob(Get(context, "DOB", S("")))
         IN  IF Truthy(normalized_extracted) /\ Truthy(normalized_on_file)
             THEN IF normalized_extracted = normalized_on_file
                  THEN Overlay(extracted, [dob_verified |-> B(TRUE),
                                           dob_correct |-> B(TRUE)])
                  ELSE Overlay(extracted, [dob_mismatch |-> B(TRUE),
                                           dob_incorrect |-> B(TRUE)])
             ELSE extracted
    ELSE extracted

\* step 4.5 of process: the payment date is copied to the template's name
PaymentDateSynced(extracted) ==
    IF T(extracted, "user_provided_payment_date")
       /\ ~PyIn(V(extracted, "user_provided_payment_date"),
                <<S("NA"), S("N/A"), None, S("")>>)
    THEN Overlay(extracted, [upd_extracted_payment_date |->
                                extracted["user_provided_payment_date"]])
    ELSE extracted

\* the mutant of execute_apis that maps the response whatever the status
execute_apis_MapsAlways(node_id, context, outcome) ==
    Overlay(context,
        CASE outcome = "status" ->
                 [api_status_code |-> I(500), api_error |-> S("Status 500"),
                  confirmation_number |-> S("C1")]
          [] outcome = "ok" ->
                 [api_status_code |-> I(200), confirmation_number |-> S("C1")]
          [] OTHER -> [api_error |-> S("timed out")])

\* the mutant of ApiLoopGoesOn that leaves the loop at the first failure
ApiLoopGoesOn_StopsOnFailure(i, n, outcome) == i < n /\ outcome = "ok"

\* "for api in apis" of execute_apis with the try inside the loop: the
\* action after the i-th of n runs whatever the i-th one's outcome
ApiLoopGoesOn(i, n, outcome) == i < n

\* the record of one API action that ran: node, position in apis, outcome
ApiRun(node_id, i, outcome) ==
    [node |-> node_id, i |-> i, kind |-> CatalogApis(node_id), outcome |-> outcome]

\* what one API action of execute_apis (one iteration of its loop) writes
\* into the local context: a 200 response, another status, an exception
ApiOutcomes == {"ok", "status", "raise"}
execute_apis(node_id, context, outcome) ==
    Overlay(context,
        CASE outcome = "ok" /\ CatalogApis(node_id) = "post" ->
                 [api_status_code |-> I(200), confirmation_number |-> S("C1")]
          [] outcome = "ok" /\ CatalogApis(node_id) = "get" ->
                 [api_status_code |-> I(200), api_response |-> S("slots")]
          [] outcome = "status" ->
                 [api_status_code |-> I(500), api_error |-> S("Status 500")]
          [] OTHER -> [api_error |-> S("timed out")])

\* get_rendered_prompt: None when the node has no prompt
get_rendered_prompt(node_id, context) ==
    LET prompt_template == CatalogPrompt(node_id)
    IN  IF prompt_template = << >> THEN None
        ELSE S(Flatten(render_template(prompt_template, context,
                 CHOOSE o \in Orders(TagsFound(prompt_template)) : TRUE)))

\* the mutant of NodeChanged that takes every turn for a node change
NodeChanged_Always(next_node, node_id) == TRUE

\* "next_node != node_id" of process (lines 234, 244 and 259)
NodeChanged(next_node, node_id) == next_node # node_id

-----------------------------------------------------------------------------
(***************************************************************************)
(* Session Coordinator: handle_twilio_call of outbound_call.py.  The two   *)
(* relay loops that touch the Context Store run as tasks of one event      *)
(* loop: twilio_receiver handles the frames of the telephony peer and      *)
(* deepgram_receiver the events of the voice agent, one event at a time.   *)
(* A step of the model is the code a task runs between two suspension      *)
(* points.  A turn (NodeEngine.process) suspends in the LLM call of        *)
(* extract_variables and in the HTTP call of execute_apis; the sends that  *)
(* end an event's handling change no state but the outbox and are part of  *)
(* the step that ends the turn.                                            *)
(***************************************************************************)
\* bounds: start frames twilio_receiver handles, agent events
\* deepgram_receiver handles
MaxStarts == 2
MaxEvents == 2

\* the call id the frames of the stream carry
CallIds == {"CA1"}
\* call_sid and stream_sid before the start frame (Python None)
NoSid == "None"

\* the customer record the handler builds before its loops start: a record
\* of the customer API, or the fallback when the lookup found nothing
CustomerInputs ==
    {[FirstName |-> S("Ann"), LastName |-> S("Lee"), LoanID |-> S("L1"),
      TotalAmountDue |-> S("100"), MonthlyPayment |-> S("50"),
      AccountNumberLastFour |-> S("1234"), DOB |-> S("1980-01-01"),
      PropertyAddress |-> S("1 Main"), RestrictAutoPayDraft |-> S("N"),
      DaysLate |-> I(20), FeesBalance |-> I(0), NextPaymentDueDate |-> S(""),
      EscrowBalance |-> I(0), PrincipalBalance |-> I(0),
      CompanyName |-> S("Acme")],
     [FirstName |-> S("Customer"), phone |-> S("5550100")]}
selected_agent == [name |-> S("Alex"), id |-> I(7)]

\* the answers of the extraction LLM tried at a node, before cleaning
LLMAnswers(node) ==
    {EmptyDict} \cup
    CASE node = "n61" ->
             {[confirmed_identity |-> B(TRUE)],
              [confirmed_identity |-> B(FALSE), party_name |-> S("")],
              [user_requests_live_agent |-> B(TRUE), party_name |-> None],
              [wrong_person |-> B(TRUE), party_name |-> S("N/A")]}
      [] node = "n68" ->
             {[extracted_dob |-> S(d)] : d \in {"1980-01-01", "1999-12-31"}}
      [] node = "n34" -> {[transfer_intake_complete |-> B(TRUE)]}
      [] node = "n42" -> {[user_confirms_authorization |-> B(TRUE)]}
      [] node = "n56" -> {[preferred_day |-> S("Monday")]}
      [] node = "n50" -> {[payment_failed |-> B(TRUE)]}
      [] OTHER -> {}

\* no turn in flight, no result returned by the last step
NoTurn == [via |-> "none"]
NoResult == [next_node |-> "none"]

\* bool(context) of the handler's local: {} and None are falsy
ContextTruthy(c) == c # EmptyDict /\ HasCtx(c)

\* one Context Store call of the last step, for the record of the step
LogEntry(op, by, sid, arg, before, after) ==
    [op |-> op, by |-> by, call_sid |-> sid, arg |-> arg,
     before |-> before, after |-> after]

\* the state a step of deepgram_receiver leaves
DgState(ctxs, lsts, pc, t, res, out, log, local) ==
    [contexts |-> ctxs, lists |-> lsts, dgPc |-> pc, turn |-> t,
     result |-> res, dgOut |-> out, storeLog |-> log, context |-> local]

\* the messages sent to the agent when a function call's handling ends
FunctionReplies(res) ==
    <<"FunctionCallResponse">> \o
    (IF res.should_update_agent /\ Truthy(res.prompt)
     THEN <<"UpdatePrompt", "InjectAgentMessage">> ELSE << >>)

\* process has returned res: the rest of the event's handling
Returned(ctxs, lsts, t, res, log, local) ==
    LET bundle == res
    IN  CASE t.via = "text" ->
                 IF res.should_update_agent /\ Truthy(res.prompt)
                 THEN DgState(ctxs, lsts, "recv", NoTurn, bundle,
                              <<"UpdatePrompt", "InjectAgentMessage">>, log,
                              res.context)
                 ELSE DgState(ctxs, lsts, "recv", NoTurn, bundle, << >>, log,
                              local)
          [] t.via = "verify_dob" ->
                 LET upd == [dob_verified |-> B(TRUE)]
                     ctxs1 == update_context(ctxs, t.call_sid, upd)
                 IN  DgState(ctxs1, lsts, "recv", NoTurn, bundle,
                             FunctionReplies(res),
                             Append(log, LogEntry("update", "deepgram_receiver",
                                 t.call_sid, upd, get_context(ctxs, t.call_sid),
                                 get_context(ctxs1, t.call_sid))),
                             local)
          [] OTHER ->
                 DgState(ctxs, lsts, "recv", NoTurn, bundle,
                         FunctionReplies(res), log, local)

\* process has raised: the ConversationText handler logs and goes on, a
\* function call's handler lets the exception end deepgram_receiver
Raises(ctxs, lsts, t, log, local) ==
    DgState(ctxs, lsts, IF t.via = "text" THEN "recv" ELSE "done", NoTurn,
            NoResult, << >>, log, local)

\* steps 8 and 9 of process: render, persist the node, append the marker
Complete(ctxs, lsts, t, log, local) ==
    IF ~NodeChanged(t.next_node, t.node_id)
    THEN Returned(ctxs, lsts, t,
             [call_sid |-> t.call_sid, node_id |-> t.node_id, extracted |-> t.extracted,
              next_node |-> t.next_node, prompt |-> None,
              context |-> t.context,
              should_update_agent |-> NodeChanged(t.next_node, t.node_id)],
             log, local)
    ELSE IF ~HasCtx(t.context) THEN Raises(ctxs, lsts, t, log, local)
    ELSE LET prompt == get_rendered_prompt(t.next_node, t.context)
             ctxs1 == set_current_node(ctxs, t.call_sid, t.next_node)
             lsts1 == IF Truthy(prompt)
                      THEN append_transcript(ctxs1, lsts, t.call_sid, "assistant",
                               "[Node: " \o t.next_node \o "]")
                      ELSE lsts
         IN  Returned(ctxs1, lsts1, t,
                 [call_sid |-> t.call_sid, node_id |-> t.node_id, extracted |-> t.extracted,
                  next_node |-> t.next_node, prompt |-> prompt,
                  context |-> t.context,
                  should_update_agent |-> NodeChanged(t.next_node, t.node_id)],
                 log, local)

\* the mutant of IsTerminal for which no node ends the call
IsTerminal_Never(next_node) == FALSE

\* process: next_node == "END"
IsTerminal(next_node) == next_node = "END"

\* steps 4 to 7 of process, from the extraction's result to the API call
Extracted(ctxs, lsts, t, cleaned, log, local) ==
    LET extracted == PaymentDateSynced(DobChecked(t.node_id, cleaned, t.ctx))
        ctxs1 == update_context(ctxs, t.call_sid, extracted)
        context == get_context(ctxs1, t.call_sid)
        next_node == get_next_node(t.node_id, extracted, context)
        t1 == [t EXCEPT !.extracted = extracted, !.context = context,
                        !.next_node = next_node]
        log1 == Append(log, LogEntry("update", "deepgram_receiver", t.call_sid,
                    extracted, get_context(ctxs, t.call_sid), context))
    IN  IF IsTerminal(next_node)
        THEN Returned(ctxs1, lsts, t,
                 [call_sid |-> t.call_sid, node_id |-> t.node_id, extracted |-> extracted,
                  next_node |-> "END", prompt |-> None, context |-> context,
                  should_update_agent |-> FALSE], log1, local)
        ELSE IF NodeChanged(next_node, t.node_id) /\ CatalogApis(next_node) # "none"
        THEN DgState(ctxs1, lsts, "api", t1, NoResult, << >>, log1, local)
        ELSE Complete(ctxs1, lsts, t1, log1, local)

\* process(call_sid, node_id, user_input, ctx) up to its first suspension:
\* extract_variables returns {} at once for a node without variables, and
\* raises at once (process then takes {}) when the context is None
Process(ctxs, lsts, via, sid, log, local) ==
    LET t == [via |-> via, call_sid |-> sid,
              node_id |-> get_current_node(ctxs, sid),
              ctx |-> get_context(ctxs, sid), extracted |-> EmptyDict,
              context |-> NoContext, next_node |-> "none", api_i |-> 1]
    IN  IF CatalogVariables(t.node_id) = {} \/ ~HasCtx(t.ctx)
        THEN Extracted(ctxs, lsts, t, EmptyDict, log, local)
        ELSE DgState(ctxs, lsts, "extract", t, NoResult, << >>, log, local)

\* the state after construction: an empty store, a handler that has built
\* its customer record and started its loops
Init ==
    /\ contexts = << >> /\ locks = {} /\ lists = << >>
    /\ customer \in CustomerInputs
    /\ hStreamSid = NoSid /\ hCallSid = NoSid /\ hContext = EmptyDict
    /\ twPc = "recv" /\ dgPc = "recv" /\ turn = NoTurn /\ hResult = NoResult
    /\ dgOut = << >> /\ dgEvents = 0 /\ storeLog = << >> /\ apiLog = << >>
    /\ llmOut = "none"
    /\ TransitionIdle /\ RenderIdle /\ RelayIdle

\* the references to list objects a dict holds
RefsOf(d) == {d[k] : k \in {x \in DOMAIN d : d[x][1] = "ref"}}
\* the list objects after garbage collection: a list that neither a stored
\* context nor the turn in flight refers to is gone (its slot is emptied)
Collected(lsts, ctxs, t) ==
    LET live == UNION {RefsOf(ctxs[i]) : i \in DOMAIN ctxs}
                \cup (IF t = NoTurn THEN {}
                      ELSE RefsOf(t.ctx) \cup RefsOf(t.context))
    IN  [n \in DOMAIN lsts |-> IF Ref(n) \in live THEN lsts[n] ELSE << >>]

\* twilio_receiver, "start" frame: the ids are taken from the frame and
\* initialize_call creates the context of the call.  The frames of one
\* stream carry one call id; nothing in the handler stops the peer from
\* sending the frame again
TwilioStart(sid) ==
    /\ twPc = "recv"
    /\ Len(lists) < MaxStarts
    /\ hCallSid \in {NoSid, sid}
    /\ LET seed == initial_data(customer, selected_agent,
                       [CompanyName |-> Get(customer, "CompanyName", S(""))])
           ctxs1 == create_context(contexts, sid, seed, Ref(Len(lists) + 1))
       IN  /\ contexts' = ctxs1
           /\ lists' = Append(Collected(lists, ctxs1, turn), << >>)
           /\ locks' = create_lock(locks, sid)
           /\ hContext' = get_context(ctxs1, sid)
           /\ storeLog' = <<LogEntry("create", "twilio_receiver", sid, seed,
                               get_context(contexts, sid), get_context(ctxs1, sid))>>
    /\ hStreamSid' = "MZ1"
    /\ hCallSid' = sid
    /\ active_calls' = active_calls \cup {"MZ1"}
    /\ hResult' = NoResult /\ dgOut' = << >> /\ relayOut' = << >>
    /\ llmOut' = "none"
    /\ UNCHANGED <<customer, twPc, dgPc, turn, dgEvents, apiLog, trVarsTuple,
                   rdVarsTuple, held, connVarsTuple>>

\* twilio_receiver, "stop" frame: the loop ends
TwilioStop ==
    /\ twPc = "recv"
    /\ twPc' = "done"
    /\ storeLog' = << >> /\ hResult' = NoResult /\ dgOut' = << >>
    /\ relayOut' = << >> /\ llmOut' = "none"
    /\ UNCHANGED <<contexts, locks, lists, customer, hStreamSid, hCallSid, hContext,
                   dgPc, turn, dgEvents, apiLog, trVarsTuple, rdVarsTuple, held,
                   active_calls, connVarsTuple>>

\* a step of deepgram_receiver leaves the state st; the step takes an
\* event of the agent when the loop was waiting for one
DgStepObserved(st, apis, llm) ==
    /\ dgEvents' = dgEvents + (IF dgPc = "recv" THEN 1 ELSE 0)
    /\ contexts' = st.contexts /\ lists' = st.lists /\ dgPc' = st.dgPc
    /\ turn' = st.turn /\ hResult' = st.result /\ dgOut' = st.dgOut
    /\ storeLog' = st.storeLog /\ hContext' = st.context
    /\ apiLog' = apis /\ llmOut' = llm
    /\ UNCHANGED <<locks, customer, hStreamSid, hCallSid, twPc, trVarsTuple, rdVarsTuple, relayVarsTuple>>

\* a step of deepgram_receiver in which no LLM call returns
DgStepLogging(st, apis) == DgStepObserved(st, apis, "none")

\* a step of deepgram_receiver in which no API call returns
DgStep(st) == DgStepLogging(st, apiLog)

\* deepgram_receiver, ConversationText: the text is appended to the
\* transcript, and a user's text is processed as a turn
DgConversationText(role) ==
    /\ dgPc = "recv"
    /\ dgEvents < MaxEvents
    /\ LET content == IF role = "user" THEN "hi" ELSE "ok"
           ready == hCallSid # NoSid /\ ContextTruthy(hContext)
           lsts1 == IF ready
                    THEN append_transcript(contexts, lists, hCallSid, role, content)
                    ELSE lists
       IN  IF role = "user" /\ ready /\ HasCtx(get_context(contexts, hCallSid))
           THEN DgStep(Process(contexts, lsts1, "text", hCallSid, << >>, hContext))
           ELSE DgStep(DgState(contexts, lsts1, "recv", NoTurn, NoResult, << >>,
                               << >>, hContext))

\* deepgram_receiver, FunctionCall process_input
DgProcessInput ==
    /\ dgPc = "recv"
    /\ dgEvents < MaxEvents
    /\ DgStep(Process(contexts, lists, "process_input", hCallSid, << >>, hContext))

\* normalize_dob of outbound_call.py for the date strings of the model:
\* the first strptime format that parses, printed as %m/%d/%Y
outbound_normalize_dob(dob_string) ==
    CASE dob_string \in {"1980-01-01", "01/01/1980"} -> "01/01/1980"
      [] dob_string = "1999-12-31" -> "12/31/1999"
      [] OTHER -> dob_string

\* deepgram_receiver, FunctionCall verify_dob
DgVerifyDob(parsed_dob) ==
    /\ dgPc = "recv"
    /\ dgEvents < MaxEvents
    /\ LET dob_match == outbound_normalize_dob(parsed_dob)
                        = outbound_normalize_dob(Get(customer, "DOB", S(""))[2])
           ctxs1 == increment_counter(contexts, hCallSid, "dob_attempts")
           upd == [dob_mismatch |-> B(TRUE)]
           ctxs2 == update_context(ctxs1, hCallSid, upd)
       IN  IF dob_match
           THEN DgStep(Process(ctxs1, lists, "verify_dob", hCallSid, << >>, hContext))
           ELSE DgStep(DgState(ctxs2, lists, "recv", NoTurn, NoResult,
                    <<"FunctionCallResponse">>,
                    <<LogEntry("update", "deepgram_receiver", hCallSid, upd,
                          get_context(ctxs1, hCallSid), get_context(ctxs2, hCallSid))>>,
                    hContext))

\* deepgram_receiver, FunctionCall transfer_to_level_2 and end_call: two
\* fields are merged into the context; reason is the argument, None for null
DgFlagCall(updates) ==
    /\ dgPc = "recv"
    /\ dgEvents < MaxEvents
    /\ LET ctxs1 == update_context(contexts, hCallSid, updates)
       IN  DgStep(DgState(ctxs1, lists, "recv", NoTurn, NoResult,
                <<"FunctionCallResponse">>,
                <<LogEntry("update", "deepgram_receiver", hCallSid, updates,
                      get_context(contexts, hCallSid), get_context(ctxs1, hCallSid))>>,
                hContext))
DgTransfer == \E reason \in {S("customer_request"), None} :
    DgFlagCall([transfer_requested |-> B(TRUE), transfer_reason |-> reason])
DgEndCall == \E reason \in {S("completed"), None} :
    DgFlagCall([call_ended |-> B(TRUE), end_reason |-> reason])

\* how the LLM call of extract_variables ends: with a JSON object, with an
\* exception of the client, with content that json.loads rejects, or with
\* JSON that is no object (result.items() raises)
LLMFailures == {"raise", "not_json", "not_object"}
LLMOutcomes(node) ==
    {[kind |-> "answer", content |-> answer] : answer \in LLMAnswers(node)}
    \cup {[kind |-> k, content |-> EmptyDict] : k \in LLMFailures}

\* the mutant of extract_variables that returns what it had parsed of a
\* failed answer
extract_variables_KeepsPartial(outcome) ==
    IF outcome.kind = "answer" THEN Cleaned(outcome.content)
    ELSE [party_name |-> S("")]

\* extract_variables from the LLM call on: the cleaned dict of an answer,
\* {} from both except clauses
extract_variables(outcome) ==
    IF outcome.kind = "answer" THEN Cleaned(outcome.content) ELSE EmptyDict

\* the LLM call of extract_variables returns and the turn goes on with
\* what extract_variables returns
DgExtractionReturns ==
    /\ dgPc = "extract"
    /\ \E outcome \in LLMOutcomes(turn.node_id) :
           DgStepObserved(
               Extracted(contexts, lists, turn, extract_variables(outcome), << >>,
                         hContext), apiLog, outcome.kind)

\* an HTTP call of execute_apis returns: the outcome is recorded in the
\* turn's copy of the context; the loop goes on to the next declared action
\* or, after the last one, update_context writes the copy back
DgApiReturns ==
    /\ dgPc = "api"
    /\ \E outcome \in ApiOutcomes :
           LET local == execute_apis(turn.next_node, turn.context, outcome)
               ran == Append(apiLog, ApiRun(turn.next_node, turn.api_i, outcome))
               ctxs1 == update_context(contexts, turn.call_sid, local)
           IN  IF ApiLoopGoesOn(turn.api_i, CatalogApiCount(turn.next_node), outcome)
               THEN DgStepLogging(
                        DgState(contexts, lists, "api",
                            [turn EXCEPT !.context = local, !.api_i = @ + 1],
                            NoResult, << >>, << >>, hContext), ran)
               ELSE DgStepLogging(
                        Complete(ctxs1, lists, [turn EXCEPT !.context = local],
                            <<LogEntry("update", "deepgram_receiver", turn.call_sid,
                                  local, get_context(contexts, turn.call_sid),
                                  get_context(ctxs1, turn.call_sid))>>,
                            hContext), ran)

\* the agent's connection closes: deepgram_receiver ends
DgClosed ==
    /\ dgPc = "recv"
    /\ dgEvents < MaxEvents
    /\ DgStep(DgState(contexts, lists, "done", NoTurn, NoResult, << >>, << >>,
                      hContext))

Next ==
    \/ \E sid \in CallIds : TwilioStart(sid)
    \/ TwilioStop
    \/ \E role \in {"user", "assistant"} : DgConversationText(role)
    \/ DgProcessInput
    \/ \E parsed_dob \in {"01/01/1980", "1999-12-31"} : DgVerifyDob(parsed_dob)
    \/ DgTransfer
    \/ DgEndCall
    \/ DgExtractionReturns
    \/ DgApiReturns
    \/ DgClosed

Spec == Init /\ [][Next]_vars

-----------------------------------------------------------------------------
(***************************************************************************)
(* Turns that enter a node with API actions (SpecApi).  The payment node   *)
(* n50 is entered from the authorization node n42 and the slot lookup node *)
(* n6 from the scheduling node n56, both many turns after the greeting, so *)
(* the specification starts from a call in progress at n42 or n56.  The    *)
(* rules lead from n6 back to n56 (n6, n4, n56) and on to n42, so that the *)
(* call may have run the slot lookup before: the context then holds what   *)
(* that lookup left, which no later step of the code removes.              *)
(***************************************************************************)
\* the nodes the call is at, and what an earlier slot lookup came to
ApiEntryNodes == {"n42", "n56"}
ApiHistories == {"none"} \cup ApiOutcomes

ApiInit ==
    /\ customer \in CustomerInputs
    /\ \E at \in ApiEntryNodes, earlier \in ApiHistories :
           LET seed == initial_data(customer, selected_agent,
                           [CompanyName |-> Get(customer, "CompanyName", S(""))])
               ctxs0 == create_context(<< >>, "CA1", seed, Ref(1))
               ctxs1 == IF earlier = "none" THEN ctxs0
                        ELSE update_context(ctxs0, "CA1",
                                 execute_apis("n6", get_context(ctxs0, "CA1"), earlier))
               ctxs2 == set_current_node(ctxs1, "CA1", at)
           IN  /\ contexts = ctxs2
               /\ lists = append_transcript(ctxs2, << << >> >>, "CA1", "assistant",
                               "[Node: " \o at \o "]")
               /\ hContext = get_context(ctxs0, "CA1")
    /\ locks = {"CA1"}
    /\ hStreamSid = "MZ1" /\ hCallSid = "CA1"
    /\ twPc = "recv" /\ dgPc = "recv" /\ turn = NoTurn /\ hResult = NoResult
    /\ dgOut = << >> /\ dgEvents = 0 /\ storeLog = << >> /\ apiLog = << >>
    /\ llmOut = "none"
    /\ held = {} /\ active_calls = {"MZ1"} /\ deepgram_ws = 0
    /\ reconnect_event = FALSE /\ current_language = "en" /\ conns = << >>
    /\ dgIter = 0 /\ senderPc = "idle" /\ callPc = "idle" /\ relayOut = << >>
    /\ reconnectLog = << >> /\ twFrames = 0
    /\ TransitionIdle /\ RenderIdle

ApiNext ==
    \/ DgProcessInput
    \/ DgExtractionReturns
    \/ DgApiReturns

SpecApi == ApiInit /\ [][ApiNext]_vars

-----------------------------------------------------------------------------
(***************************************************************************)
(* The Context Store under concurrent callers (SpecStore).  Every method   *)
(* takes one asyncio.Lock with "async with": _global_lock in               *)
(* create_context and delete_context, the lock of the call in the others.  *)
(* acquire returns at once when the lock is free and suspends the caller   *)
(* otherwise; no method body holds an await, so a step of a caller runs    *)
(* from the acquire to the release.  A release wakes the first waiter; no  *)
(* state of the store has one.                                             *)
(***************************************************************************)
\* bound: entries of a transcript, value of a counter
MaxGrowth == 1
\* bound: increment_counter calls on one context
MaxIncrements == 2

\* the call ids of the concurrent callers
StoreIds == {"CA1", "CA2"}

StoreOps == {"create", "delete", "update", "set_node", "append", "increment"}

\* the lock a method takes; "none" on the early return for a call that has
\* no context
LockOf(ctxs, op, call_sid) ==
    IF op \in {"create", "delete"} THEN "global"
    ELSE IF call_sid \in DOMAIN ctxs THEN call_sid ELSE "none"

\* async with: the lock on entry
Acquired(h, lock) == IF lock = "none" THEN h ELSE h \cup {lock}

\* the mutant of Released that leaves the lock locked
Released_Never(h, lock) == h

\* async with: the lock on exit
Released(h, lock) == h \ {lock}

\* the mutant of delete_context that deletes nothing
delete_context_Keeps(ctxs, call_sid) == ctxs

\* _contexts after delete_context(call_sid)
delete_context(ctxs, call_sid) ==
    [i \in DOMAIN ctxs \ {call_sid} |-> ctxs[i]]

\* what delete_context returns: final_context, a copy of the stored dict,
\* or None for an id without a context
final_context(ctxs, call_sid) ==
    IF call_sid \in DOMAIN ctxs THEN ctxs[call_sid] ELSE NoContext

\* get_all_active_calls: the keys of _contexts
get_all_active_calls(ctxs) == DOMAIN ctxs

\* what a caller that ran into a KeyError has in place of a result
KeyError == [raised |-> S("KeyError")]

\* the mutant of LockedAccess without the early return for a call that has
\* no context
LockedAccess_NoCheck(ctxs, lks, h, call_sid) ==
    IF call_sid \notin lks THEN "error"
    ELSE IF call_sid \in h THEN "suspended"
    ELSE IF call_sid \notin DOMAIN ctxs THEN "error"
    ELSE "done"

\* how a method of one call gets to its context: "absent" on the early
\* return, "error" when self._locks[call_sid] or self._contexts[call_sid]
\* raises KeyError, "suspended" when acquire finds the lock locked and the
\* caller gives way to the others between the check and the access, "done"
\* when check, acquire and access run in one step
LockedAccess(ctxs, lks, h, call_sid) ==
    IF call_sid \notin DOMAIN ctxs THEN "absent"
    ELSE IF call_sid \notin lks THEN "error"
    ELSE IF call_sid \in h THEN "suspended"
    ELSE "done"

\* a caller's step through one method: it proceeds when acquire does not
\* have to wait
StoreCall(op, call_sid, arg, ctxs1, lsts1, locks1) ==
    LET lock == LockOf(contexts, op, call_sid)
        outcome == IF op \in {"create", "delete"} THEN "done"
                   ELSE LockedAccess(contexts, locks, held, call_sid)
        ctxs2 == IF outcome = "error" THEN contexts ELSE ctxs1
        lsts2 == IF outcome = "error" THEN lists ELSE lsts1
    IN  /\ lock \notin held
        /\ outcome # "suspended"
        /\ held' = Released(Acquired(held, lock), lock)
        /\ contexts' = ctxs2
        /\ lists' = Collected(lsts2, ctxs2, NoTurn)
        /\ locks' = locks1
        /\ storeLog' = <<LogEntry(op, "caller", call_sid, arg,
                            get_context(contexts, call_sid),
                            IF outcome = "error" THEN KeyError
                            ELSE get_context(ctxs2, call_sid))>>
        /\ UNCHANGED <<customer, hStreamSid, hCallSid, hContext, twPc, dgPc, turn,
                       hResult, dgOut, dgEvents, apiLog, llmOut, trVarsTuple,
                       rdVarsTuple, active_calls, relayOut, connVarsTuple>>

StoreCreate(call_sid, seed) ==
    /\ Len(lists) < MaxStarts
    /\ StoreCall("create", call_sid, seed,
           create_context(contexts, call_sid, seed, Ref(Len(lists) + 1)),
           Append(lists, << >>), create_lock(locks, call_sid))

StoreDelete(call_sid) ==
    /\ call_sid \in StoreIds
    /\ StoreCall("delete", call_sid, EmptyDict, delete_context(contexts, call_sid),
        lists, delete_lock(locks, call_sid))

StoreUpdate(call_sid, updates) ==
    /\ call_sid \in StoreIds
    /\ StoreCall("update", call_sid, updates,
        update_context(contexts, call_sid, updates), lists, locks)

StoreSetNode(call_sid, node_id) ==
    /\ call_sid \in StoreIds
    /\ StoreCall("set_node", call_sid, [current_node |-> S(node_id)],
        set_current_node(contexts, call_sid, node_id), lists, locks)

StoreAppend(call_sid) ==
    /\ \A n \in DOMAIN lists : Len(lists[n]) < MaxGrowth
    /\ StoreCall("append", call_sid, [content |-> S("hi")], contexts,
           append_transcript(contexts, lists, call_sid, "user", "hi"), locks)

\* the counter of one call is counted up; the calls on the other id
\* interleave with it
StoreIncrement(call_sid) ==
    /\ call_sid = "CA1"
    /\ Get(get_context(contexts, call_sid), "dob_attempts", I(0))[2] < MaxIncrements
    /\ StoreCall("increment", call_sid, [counter_name |-> S("dob_attempts")],
           increment_counter(contexts, call_sid, "dob_attempts"), lists, locks)

StoreInit == TransitionIdle /\ RenderIdle /\ SessionIdle /\ RelayIdle

StoreNext ==
    \E call_sid \in StoreIds :
        \/ StoreCreate(call_sid, initial_data([FirstName |-> S("Customer")],
                                    selected_agent, EmptyDict))
        \/ StoreDelete(call_sid)
        \/ StoreUpdate(call_sid, [language |-> S("es"), end_reason |-> None])
        \/ StoreSetNode(call_sid, "n68")
        \/ StoreAppend(call_sid)
        \/ StoreIncrement(call_sid)

SpecStore == StoreInit /\ [][StoreNext]_vars

-----------------------------------------------------------------------------
(***************************************************************************)
(* The connections of one call (SpecCall): handle_twilio_call has opened   *)
(* and configured the voice session and runs twilio_receiver,              *)
(* deepgram_sender and deepgram_receiver under asyncio.gather; the cleanup *)
(* in its finally block runs when all three have returned.  The language   *)
(* switch of deepgram_receiver suspends in close() and in                  *)
(* initialize_deepgram_connection; the turns deepgram_receiver runs are    *)
(* the subject of Spec.  The voice session closing its connection is a     *)
(* step of the peer.                                                       *)
(***************************************************************************)
\* bound: media frames twilio_receiver takes
MaxFrames == 2

Languages == {"en", "es"}

\* an entry of relayOut: what was sent or dropped, the connection, the state
\* of reconnect_event at that point, and a mark that tells successive
\* keep-alives apart
Sent(what, conn, flag) == [what |-> what, conn |-> conn, flag |-> flag, n |-> 0]

\* the mutant of Forwardable that does not look at reconnect_event
Forwardable_IgnoresFlag(ws, flag) == ws # 0

\* twilio_receiver and deepgram_sender: deepgram_ws and not
\* reconnect_event.is_set()
Forwardable(ws, flag) == ws # 0 /\ ~flag

\* the mutant of OpenedConnection whose connection is not open
OpenedConnection_Closed(cs) == Append(cs, "closed")

\* the connections after initialize_deepgram_connection has returned one
OpenedConnection(cs) == Append(cs, "open")

\* the connections after connection ws has been closed
ClosedConnection(cs, ws) ==
    IF ws \in DOMAIN cs THEN [cs EXCEPT ![ws] = "closed"] ELSE cs

\* render_template reads the context with context.get: on the None that
\* get_context returns for a call without a context, get_master_prompt and
\* get_rendered_prompt raise when the template they render has a placeholder
PromptsMayRaise(ctx) == ~HasCtx(ctx)

CallInit ==
    /\ TransitionIdle /\ RenderIdle
    /\ contexts = << >> /\ locks = {} /\ lists = << >> /\ held = {}
    /\ customer \in CustomerInputs
    /\ hStreamSid = NoSid /\ hCallSid = NoSid /\ hContext = EmptyDict
    /\ twPc = "recv" /\ dgPc = "recv" /\ turn = NoTurn /\ hResult = NoResult
    /\ dgOut = << >> /\ dgEvents = 0 /\ storeLog = << >> /\ apiLog = << >>
    /\ llmOut = "none"
    /\ active_calls = {} /\ deepgram_ws = 1 /\ conns = <<"open">>
    /\ reconnect_event = FALSE /\ current_language = "en" /\ dgIter = 1
    /\ senderPc = "run" /\ callPc = "gather" /\ relayOut = << >>
    /\ reconnectLog = << >> /\ twFrames = 0

\* the state a step of the call starts from; the outputs of the step before
\* are gone
Here ==
    [contexts |-> contexts, locks |-> locks, lists |-> lists, twPc |-> twPc,
     dgPc |-> dgPc, dgEvents |-> dgEvents, storeLog |-> << >>,
     active_calls |-> active_calls, deepgram_ws |-> deepgram_ws,
     reconnect_event |-> reconnect_event, current_language |-> current_language,
     conns |-> conns, dgIter |-> dgIter, senderPc |-> senderPc, callPc |-> callPc,
     relayOut |-> << >>, reconnectLog |-> reconnectLog, twFrames |-> twFrames]

\* a step of the call leaves the state st
CallStep(st) ==
    /\ contexts' = st.contexts /\ locks' = st.locks /\ lists' = st.lists
    /\ twPc' = st.twPc /\ dgPc' = st.dgPc /\ dgEvents' = st.dgEvents
    /\ storeLog' = st.storeLog /\ active_calls' = st.active_calls
    /\ deepgram_ws' = st.deepgram_ws /\ reconnect_event' = st.reconnect_event
    /\ current_language' = st.current_language /\ conns' = st.conns
    /\ dgIter' = st.dgIter /\ senderPc' = st.senderPc /\ callPc' = st.callPc
    /\ relayOut' = st.relayOut /\ reconnectLog' = st.reconnectLog
    /\ twFrames' = st.twFrames
    /\ UNCHANGED <<customer, hStreamSid, hCallSid, hContext, turn, hResult, dgOut,
                   apiLog, llmOut, held, trVarsTuple, rdVarsTuple>>

\* twilio_receiver, "media" frame: forwarded to the voice session or
\* dropped; a send on a closed connection raises and the loop ends in its
\* except clause
TwilioMedia ==
    /\ twPc = "recv"
    /\ twFrames < MaxFrames
    /\ CallStep(
          IF ~Forwardable(deepgram_ws, reconnect_event)
          THEN [Here EXCEPT !.twFrames = @ + 1,
                   !.relayOut = <<Sent("drop_in", deepgram_ws, reconnect_event)>>]
          ELSE IF conns[deepgram_ws] = "open"
          THEN [Here EXCEPT !.twFrames = @ + 1,
                   !.relayOut = <<Sent("audio_in", deepgram_ws, reconnect_event)>>]
          ELSE [Here EXCEPT !.twFrames = @ + 1, !.twPc = "failed",
                   !.relayOut = <<Sent("failed_in", deepgram_ws, reconnect_event)>>])

\* twilio_receiver: the telephony connection is closed or fails; iter_text
\* ends or raises and the loop is over
TwilioDisconnects ==
    /\ twPc = "recv"
    /\ CallStep([Here EXCEPT !.twPc = "failed"])

\* deepgram_sender: the sleep of 30 s is over; the keep-alive is sent unless
\* a reconnect is in progress; a send that raises ends the loop, which lies
\* inside the try
SenderTick ==
    /\ senderPc = "run"
    /\ CallStep(
          IF ~Forwardable(deepgram_ws, reconnect_event)
          THEN Here
          ELSE IF conns[deepgram_ws] = "open"
          THEN [Here EXCEPT !.relayOut =
                   <<[Sent("KeepAlive", deepgram_ws, reconnect_event) EXCEPT !.n =
                        IF relayOut # << >> /\ relayOut[1].what = "KeepAlive"
                        THEN 1 - relayOut[1].n ELSE 0]>>]
          ELSE [Here EXCEPT !.senderPc = "done",
                   !.relayOut = <<Sent("KeepAliveFailed", deepgram_ws,
                                       reconnect_event)>>])

\* deepgram_receiver, a binary message of the connection it iterates:
\* forwarded to telephony unless a reconnect is in progress or no stream id
\* is known
DgAudio ==
    /\ dgPc = "recv" /\ conns[dgIter] = "open"
    /\ dgEvents < MaxEvents
    /\ CallStep([Here EXCEPT !.dgEvents = @ + 1,
          !.relayOut =
              IF ~reconnect_event /\ hStreamSid # NoSid
              THEN <<Sent("audio_out", dgIter, reconnect_event)>>
              ELSE <<Sent("drop_out", dgIter, reconnect_event)>>])

\* deepgram_receiver, FunctionCall switch_language, up to the await of
\* close(): for the current language the reply is sent at once
DgSwitchLanguage(target_lang) ==
    /\ dgPc = "recv" /\ conns[dgIter] = "open"
    /\ dgEvents < MaxEvents
    /\ IF target_lang # current_language
       THEN LET updates == [language |-> S(target_lang)]
                ctxs1 == update_context(contexts, hCallSid, updates)
            IN  CallStep([Here EXCEPT !.dgEvents = @ + 1,
                   !.current_language = target_lang,
                   !.contexts = ctxs1,
                   !.storeLog = <<LogEntry("update", "deepgram_receiver", hCallSid,
                                     updates, get_context(contexts, hCallSid),
                                     get_context(ctxs1, hCallSid))>>,
                   !.reconnect_event = TRUE,
                   !.conns = ClosedConnection(conns, deepgram_ws),
                   !.reconnectLog = <<"set", "close">>,
                   !.dgPc = "closing"])
       ELSE CallStep([Here EXCEPT !.dgEvents = @ + 1,
                !.relayOut = <<Sent("FunctionCallResponse", deepgram_ws,
                                    reconnect_event)>>])

\* the "clear" command sent to the telephony connection
ClearCommand(stream_sid, flag) ==
    [what |-> "clear", conn |-> 0, flag |-> flag, n |-> 0, streamSid |-> stream_sid]

\* the mutant of BargeInReplies that sends nothing
BargeInReplies_Silent(stream_sid, flag) == << >>

\* UserStartedSpeaking: what is sent to telephony, nothing before the start
\* frame has set stream_sid
BargeInReplies(stream_sid, flag) ==
    IF stream_sid # NoSid THEN <<ClearCommand(stream_sid, flag)>> ELSE << >>

\* deepgram_receiver, UserStartedSpeaking (barge-in)
DgUserStartedSpeaking ==
    /\ dgPc = "recv" /\ conns[dgIter] = "open"
    /\ dgEvents < MaxEvents
    /\ CallStep([Here EXCEPT !.dgEvents = @ + 1,
          !.relayOut = BargeInReplies(hStreamSid, reconnect_event)])

\* deepgram_receiver, FunctionCall end_call: the reason is merged into the
\* context and the reply is sent; the loop goes on to its next message
DgEndCallReceived ==
    /\ dgPc = "recv" /\ conns[dgIter] = "open"
    /\ dgEvents < MaxEvents
    /\ LET updates == [call_ended |-> B(TRUE), end_reason |-> S("completed")]
           ctxs1 == update_context(contexts, hCallSid, updates)
       IN  CallStep([Here EXCEPT !.dgEvents = @ + 1,
              !.contexts = ctxs1,
              !.storeLog = <<LogEntry("update", "deepgram_receiver", hCallSid,
                                updates, get_context(contexts, hCallSid),
                                get_context(ctxs1, hCallSid))>>,
              !.relayOut = <<Sent("FunctionCallResponse", deepgram_ws,
                                  reconnect_event)>>])

\* switch_language after close() has returned: the prompts are rendered in
\* the new language, up to the await of initialize_deepgram_connection; an
\* exception ends deepgram_receiver in its except clause
DgCloseReturns(raised) ==
    /\ dgPc = "closing"
    /\ raised => PromptsMayRaise(get_context(contexts, hCallSid))
    /\ CallStep(
          IF raised
          THEN [Here EXCEPT !.dgPc = "done"]
          ELSE [Here EXCEPT !.dgPc = "connecting",
                   !.reconnectLog = Append(@, "render")])

\* switch_language after initialize_deepgram_connection: it returns the new
\* connection, the flag is cleared and the reply is sent on deepgram_ws; or
\* it raises and deepgram_receiver ends in its except clause
DgConnectReturns(ok) ==
    /\ dgPc = "connecting"
    /\ CallStep(
          IF ok
          THEN [Here EXCEPT !.conns = OpenedConnection(conns),
                   !.deepgram_ws = Len(conns) + 1,
                   !.reconnect_event = FALSE,
                   !.reconnectLog = @ \o <<"open", "clear">>,
                   !.relayOut = <<Sent("FunctionCallResponse", Len(conns) + 1, FALSE)>>,
                   !.dgPc = "recv"]
          ELSE [Here EXCEPT !.dgPc = "done"])

\* deepgram_receiver: the connection its async for iterates is closed and
\* the loop ends
DgIterEnds ==
    /\ dgPc = "recv" /\ conns[dgIter] = "closed"
    /\ CallStep([Here EXCEPT !.dgPc = "done"])

\* the voice session closes the connection
DgPeerCloses ==
    /\ callPc = "gather"
    /\ deepgram_ws # 0 /\ conns[deepgram_ws] = "open"
    /\ CallStep([Here EXCEPT !.conns = ClosedConnection(conns, deepgram_ws)])

\* the step of the finally block that raises, if one does: building or
\* posting the memo, or close() of the voice session
CleanupFaults == {"none", "report", "close"}

\* active_calls after the finally block: "await deepgram_ws.close()" is not
\* inside a try, and an exception of it leaves the block before the call is
\* removed
RegistryAfterClose(calls, stream_sid, fault) ==
    IF fault = "close" THEN calls ELSE calls \ {stream_sid}

\* handle_twilio_call: gather has returned the three loops; the finally
\* block deletes the context and posts the memo inside one try, closes
\* deepgram_ws and removes the call from active_calls
Cleanup(fault) ==
    /\ callPc = "gather"
    /\ twPc \in {"done", "failed"} /\ senderPc = "done" /\ dgPc = "done"
    /\ fault = "report" => hCallSid # NoSid
    /\ fault = "close" => deepgram_ws # 0
    /\ LET ctxs1 == IF hCallSid # NoSid THEN delete_context(contexts, hCallSid)
                    ELSE contexts
       IN  CallStep([Here EXCEPT !.contexts = ctxs1,
              !.locks = delete_lock(locks, hCallSid),
              !.lists = Collected(lists, ctxs1, NoTurn),
              !.storeLog = IF hCallSid # NoSid
                           THEN <<LogEntry("delete", "handle_twilio_call", hCallSid,
                                      EmptyDict, final_context(contexts, hCallSid),
                                      get_context(ctxs1, hCallSid))>>
                           ELSE << >>,
              !.relayOut = IF hCallSid = NoSid THEN << >>
                           ELSE IF fault = "report"
                           THEN <<Sent("memo_failed", 0, reconnect_event)>>
                           ELSE <<Sent("memo", 0, reconnect_event)>>,
              !.conns = IF fault = "close" THEN conns
                        ELSE ClosedConnection(conns, deepgram_ws),
              !.active_calls = RegistryAfterClose(active_calls, hStreamSid, fault),
              !.callPc = "done"])

CallNext ==
    \/ \E sid \in CallIds : TwilioStart(sid)
    \/ TwilioMedia
    \/ TwilioStop
    \/ TwilioDisconnects
    \/ SenderTick
    \/ DgAudio
    \/ \E target_lang \in Languages : DgSwitchLanguage(target_lang)
    \/ DgUserStartedSpeaking
    \/ DgEndCallReceived
    \/ \E raised \in BOOLEAN : DgCloseReturns(raised)
    \/ \E ok \in BOOLEAN : DgConnectReturns(ok)
    \/ DgIterEnds
    \/ DgPeerCloses
    \/ \E fault \in CleanupFaults : Cleanup(fault)

SpecCall == CallInit /\ [][CallNext]_vars

\* the event loop runs every task that can go on, and an awaited close or
\* connect returns or raises; frames and events of the peers need not come
SpecCallFair ==
    /\ SpecCall
    /\ WF_vars(SenderTick)
    /\ WF_vars(\E raised \in BOOLEAN : DgCloseReturns(raised))
    /\ WF_vars(\E ok \in BOOLEAN : DgConnectReturns(ok))
    /\ WF_vars(DgIterEnds)
    /\ WF_vars(\E fault \in CleanupFaults : Cleanup(fault))

-----------------------------------------------------------------------------
(***************************************************************************)
(* Properties of the Transition Engine, checked under SpecTransition.      *)
(***************************************************************************)
TrGlobals == GLOBAL_TRIGGERS(trVars, trCtx)
TrRules == TRANSITION_RULES(trNode, trVars, trCtx)
SomeGlobalTrue == \E i \in 1..Len(TrGlobals) : TrGlobals[i].cond
SomeRuleTrue == \E i \in 1..Len(TrRules) : TrRules[i].cond
\* rule i of the list holds and no earlier rule of the list does
IsFirstTrue(rules, i) == rules[i].cond /\ \A j \in 1..(i - 1) : ~rules[j].cond

\* C1: when a global trigger and a rule of the current node are both true,
\* get_next_node returns the target of the first true global trigger; the
\* node rule decides nothing.
C1_GlobalOverridesNode ==
    (trPc = "returned" /\ SomeGlobalTrue /\ SomeRuleTrue) =>
        \E i \in 1..Len(TrGlobals) :
            IsFirstTrue(TrGlobals, i) /\ trNext = TrGlobals[i].target

\* C1 witness: a global trigger and a node rule with another target are
\* both true, and the call has returned.
C1_Witness ==
    /\ trPc = "returned"
    /\ trNode = "n68"
    /\ T(trVars, "user_mentions_attorney")
    /\ T(trVars, "dob_verified")
    /\ trNext = "n5"

\* C2 (as claimed): in n68 and n22, once dob_attempts has reached 5,
\* get_next_node returns n34 whichever of the DOB flags are true.
DobFlags == {"dob_verified", "dob_correct", "dob_mismatch", "dob_incorrect",
             "dob_still_wrong"}

C2_CeilingForcesEscalation ==
    (/\ trPc = "returned"
     /\ trNode \in {"n68", "n22"}
     /\ DOMAIN trVars \subseteq DobFlags
     /\ CGe(trCtx, "dob_attempts", I(0), 5)) => trNext = "n34"

\* C4: within the global list and within the node's list the rules are
\* tried in declared order and the first true one gives the target; at n68
\* with dob_mismatch true, no verified flag and dob_attempts = 1 the next
\* node is n32.
C4_FirstTrueRuleWins ==
    trPc = "returned" =>
        /\ SomeGlobalTrue =>
              \E i \in 1..Len(TrGlobals) :
                  IsFirstTrue(TrGlobals, i) /\ trNext = TrGlobals[i].target
        /\ (~SomeGlobalTrue /\ SomeRuleTrue) =>
              \E i \in 1..Len(TrRules) :
                  IsFirstTrue(TrRules, i) /\ trNext = TrRules[i].target
        /\ (/\ trNode = "n68"
            /\ ~SomeGlobalTrue
            /\ T(trVars, "dob_mismatch")
            /\ ~T(trVars, "dob_verified") /\ ~T(trVars, "dob_correct")
            /\ trCtx = [dob_attempts |-> I(1)]) => trNext = "n32"

\* C4 witness: two rules of n68 with different targets are true and the
\* earlier one decided; and the scenario of the claim is reached.
C4_Witness ==
    /\ trPc = "returned"
    /\ trNode = "n68"
    /\ ~SomeGlobalTrue
    /\ T(trVars, "dob_mismatch")
    /\ ~T(trVars, "dob_verified")
    /\ T(trVars, "dob_incorrect")
    /\ trCtx = [dob_attempts |-> I(1)]
    /\ trNext = "n32"

-----------------------------------------------------------------------------
(***************************************************************************)
(* Properties of the Template Renderer, checked under SpecRender.          *)
(***************************************************************************)
\* C5 (as claimed): rendering the output of render_template again with the
\* same context gives the same text.
C5_RenderIdempotent == rdPc = "twice" => rdOut2 = rdOut1

\* number of occurrences of tok among the first k tokens
Count(text, tok, k) == Cardinality({i \in 1..k : text[i] = tok})

\* the tags of text are only those of name, and they form one or more
\* blocks: open, close, open, close, ...
PairedOnly(text, name) ==
    LET open == TagTok(name)
        close == TagTok("end" \o name)
    IN  /\ TagsFound(text) = {name, "end" \o name}
        /\ \A k \in 0..Len(text) :
               Count(text, open, k) - Count(text, close, k) \in {0, 1}
        /\ Count(text, open, Len(text)) = Count(text, close, Len(text))

\* token k lies in a block of name, its two tags included
InBlock(text, name, k) ==
    Count(text, TagTok(name), k) > Count(text, TagTok("end" \o name), k - 1)

RECURSIVE PickFrom(_, _, _)
\* the tokens of text at the indexes of keep, from index k on, in order
PickFrom(text, keep, k) ==
    IF k > Len(text) THEN << >>
    ELSE (IF k \in keep THEN <<text[k]>> ELSE << >>) \o PickFrom(text, keep, k + 1)

BlocksDeleted(text, name) ==
    PickFrom(text, {k \in 1..Len(text) : ~InBlock(text, name, k)}, 1)
TagsStripped(text) ==
    PickFrom(text, {k \in 1..Len(text) : ~IsTag(text[k])}, 1)
\* the rest of the pipeline, applied to a text without blocks
Finish(text, ctx) == clean_whitespace(substitute_variables(text, ctx))

EsBlockAB == <<TagTok("es"), "A", TagTok("endes"), "B">>

\* C6: for the registered name "es" every block of the template resolves
\* the same way: all blocks deleted with their content when the predicate
\* is false, all tags stripped and the content kept when it is true;
\* {%es%}A{%endes%}B renders "B" when false and "AB" when true.
C6_RegisteredBlockResolved ==
    (rdPc # "start" /\ PairedOnly(rdTemplate, "es")) =>
        /\ rdOut1 = Finish(IF CONDITIONAL_MAPPINGS("es", rdCtx) = "true"
                           THEN TagsStripped(rdTemplate)
                           ELSE BlocksDeleted(rdTemplate, "es"), rdCtx)
        /\ rdTemplate = EsBlockAB =>
               Flatten(rdOut1) = IF rdCtx["language"] = S("es") THEN "AB" ELSE "B"

\* C6 witness: {%es%}A{%endes%}B has been rendered with the predicate false.
C6_Witness ==
    /\ rdPc = "once"
    /\ rdTemplate = EsBlockAB
    /\ rdCtx["language"] = S("en")
    /\ Flatten(rdOut1) = "B"

\* C7: a block of the unregistered name "promo" is kept: both tags are
\* stripped, the content stays, and the render does not raise.
C7_UnregisteredFailOpen ==
    (rdPc # "start" /\ PairedOnly(rdTemplate, "promo")) =>
        /\ rdOut1 # Raised
        /\ rdOut1 = Finish(TagsStripped(rdTemplate), rdCtx)

\* C7 witness: a promo block with content has been rendered.
C7_Witness ==
    /\ rdPc = "once"
    /\ rdTemplate = <<TagTok("promo"), VarTok("note"), TagTok("endpromo"), "B">>
    /\ rdCtx["note"] = S("x")
    /\ Flatten(rdOut1) = "xB"

\* C32: the result of render_template does not depend on the order in
\* which process_conditionals visits the distinct tag names of the
\* template, also when blocks of different names are nested or overlap.
C32_RenderOrderIndependent ==
    (rdPc = "once") =>
        \A order \in Orders(TagsFound(rdTemplate)) :
            render_template(rdTemplate, rdCtx, order) = rdOut1

\* C33: the output of render_template holds no conditional marker and no
\* variable placeholder, whatever the template and the context.
C33_NoMarkerLeft ==
    (rdPc = "once" /\ rdOut1 # Raised) =>
        \A i \in 1..Len(rdOut1) : ~IsTag(rdOut1[i]) /\ ~IsVar(rdOut1[i])

\* the lines of a text that are not blank, in order
RECURSIVE ContentLines(_)
ContentLines(lines) ==
    IF lines = << >> THEN << >>
    ELSE (IF IsBlankLine(Head(lines)) THEN << >> ELSE <<Head(lines)>>)
         \o ContentLines(Tail(lines))

\* the template holds neither tags nor placeholders: render_template is
\* clean_whitespace of the template
PlainText(template) ==
    \A i \in 1..Len(template) : ~IsTag(template[i]) /\ ~IsVar(template[i])

\* C34: the output of clean_whitespace never has three or more blank lines
\* in a row, also where lines of the input held only whitespace; it neither
\* starts nor ends with a blank line; its blank lines are empty and its
\* other lines are the content-bearing lines of the input, unchanged.
C34_WhitespaceNormalized ==
    (rdPc = "once" /\ PlainText(rdTemplate)) =>
        LET out == SplitLines(rdOut1)
        IN  /\ rdOut1 = clean_whitespace(rdTemplate)
            /\ \A i \in 1..(Len(out) - 2) :
                   ~(IsBlankLine(out[i]) /\ IsBlankLine(out[i + 1])
                     /\ IsBlankLine(out[i + 2]))
            /\ (rdOut1 # << >>) =>
                   ~IsBlankLine(out[1]) /\ ~IsBlankLine(out[Len(out)])
            /\ \A i \in 1..Len(out) : IsBlankLine(out[i]) => out[i] = << >>
            /\ ContentLines(out) = ContentLines(SplitLines(rdTemplate))

-----------------------------------------------------------------------------
(***************************************************************************)
(* Properties of the Context Store and of a turn, checked under Spec.      *)
(***************************************************************************)
\* the turn that returned res found no global trigger and no node rule true
NoRuleTrue(res) ==
    LET globals == GLOBAL_TRIGGERS(res.extracted, res.context)
        rules == TRANSITION_RULES(res.node_id, res.extracted, res.context)
    IN  /\ \A i \in 1..Len(globals) : ~globals[i].cond
        /\ \A i \in 1..Len(rules) : ~rules[i].cond
\* no transcript has received the marker of next_node in the step
NoMarkerAppended(next_node) ==
    \A r \in DOMAIN lists :
        \A i \in (Len(lists[r]) + 1)..Len(lists'[r]) :
            lists'[r][i].content # "[Node: " \o next_node \o "]"

\* the targets the table names for a node: those of its own rules and those
\* of the global triggers, whatever the conditions
TableTargets(node) ==
    LET rules == RulesOf(node, EmptyDict, NoContext)
        globals == GLOBAL_TRIGGERS(EmptyDict, NoContext)
    IN  {rules[i].target : i \in 1..Len(rules)}
        \cup {globals[i].target : i \in 1..Len(globals)}

\* a node with a rule set of its own
HasRules(node) == Len(RulesOf(node, EmptyDict, NoContext)) > 0

\* the transitions get_next_node takes on the inputs of the harness, as
\* pairs of a node and the node returned for it
Successors ==
    {edge : edge \in UNION {{<<node, get_next_node(node, v, c)>> :
                                v \in ExtractedInputs(node),
                                c \in ContextInputs(node)} : node \in NodeIds}}

\* the nodes from which a node of done is some turns away
RECURSIVE LeadsTo(_)
LeadsTo(done) ==
    LET more == {edge[1] : edge \in {e \in Successors : e[2] \in done}} \ done
    IN  IF more = {} THEN done ELSE LeadsTo(done \cup more)

CanReachEnd == {node : node \in LeadsTo({"END"})}

\* every node of the table has a rule set, and every target the table
\* names is END or a node with a rule set
TableClosed ==
    \A node \in NodeIds :
        /\ HasRules(node)
        /\ \A target \in TableTargets(node) :
               target = "END" \/ (target \in NodeIds /\ HasRules(target))

\* C39: the transition table is closed and has no trap.  Every target of a
\* global trigger and of a node rule is END or a node with a rule set of
\* its own, so every node get_next_node returns for a node of the table is
\* END or such a node; and from every node of the table END is some turns
\* away through transitions get_next_node takes.
C39_TableClosedNoTrap ==
    /\ TableClosed
    /\ NodeIds \subseteq CanReachEnd
    /\ (trPc = "returned" /\ trNode \in NodeIds) =>
           /\ trNext = "END" \/ (trNext \in NodeIds /\ HasRules(trNext))
           /\ trNext \in CanReachEnd

\* get_next_node has sent the payment capture back to the menu it came
\* from: a cycle of the table, left through other rules of the menu
C39_Witness ==
    /\ trPc = "returned" /\ trNode = "n19" /\ trNext = "n49"
    /\ <<"n49", "n19">> \in Successors
    /\ <<"n49", "END">> \notin Successors


\* C3: a turn in which no global trigger and no rule of the current node is
\* true returns next_node = the current node, prompt None and
\* should_update_agent False, sends no prompt update, leaves the stored
\* current node as it was and appends no marker to the transcript.
C3_NoMatchStaysPut ==
    [][(hResult'.next_node # "none" /\ NoRuleTrue(hResult')) =>
          /\ hResult'.next_node = hResult'.node_id
          /\ hResult'.prompt = None
          /\ ~hResult'.should_update_agent
          /\ \A i \in DOMAIN dgOut' : dgOut'[i] # "UpdatePrompt"
          /\ get_current_node(contexts', hResult'.call_sid)
                = get_current_node(contexts, hResult'.call_sid)
          /\ NoMarkerAppended(hResult'.next_node)]_vars

\* a turn on an existing context with an empty extraction has returned
C3_Witness ==
    /\ hResult.next_node # "none"
    /\ NoRuleTrue(hResult)
    /\ hResult.extracted = EmptyDict
    /\ HasCtx(hResult.context)
    /\ hResult.node_id = "n68"

\* C8: update_context(id, partial) leaves a field unchanged when partial
\* carries no value (None) for it, sets a field to the value partial carries
\* for it otherwise, and leaves the fields partial does not name unchanged.
C8_UpdateMergesPresentValues ==
    \A i \in DOMAIN storeLog :
        LET e == storeLog[i]
            present == {k \in DOMAIN e.arg : ~IsNone(e.arg[k])}
        IN  (e.op = "update" /\ HasCtx(e.before)) =>
                /\ DOMAIN e.after = DOMAIN e.before \cup present
                /\ \A k \in DOMAIN e.after :
                       e.after[k] = IF k \in present THEN e.arg[k] ELSE e.before[k]

\* an update has carried None for a field the context does not hold, next to
\* a present value
C8_Witness ==
    \E i \in DOMAIN storeLog :
        /\ storeLog[i].op = "update"
        /\ HasCtx(storeLog[i].before)
        /\ \E k \in DOMAIN storeLog[i].arg :
               IsNone(storeLog[i].arg[k]) /\ k \notin DOMAIN storeLog[i].before
        /\ \E k \in DOMAIN storeLog[i].arg :
               /\ ~IsNone(storeLog[i].arg[k])
               /\ storeLog[i].arg[k] # Get(storeLog[i].before, k, None)

\* C9: right after create_context(id, seed), get_context(id) holds every
\* seed field with the seed's value and every other field with its default,
\* the current node is n61, the language en and the transcript empty.
C9_CreateYieldsSeedOverDefaults ==
    \A i \in DOMAIN storeLog :
        LET e == storeLog[i]
            got == get_context(contexts, e.call_sid)
        IN  e.op = "create" =>
                /\ got = e.after
                /\ DOMAIN got = DOMAIN e.arg
                                \cup DOMAIN DefaultContext(e.call_sid, got.transcript)
                /\ \A k \in DOMAIN got :
                       got[k] = IF k \in DOMAIN e.arg THEN e.arg[k]
                                ELSE DefaultContext(e.call_sid, got.transcript)[k]
                /\ got.current_node = S("n61")
                /\ got.language = S("en")
                /\ got.transcript[1] = "ref"
                /\ lists[got.transcript[2]] = << >>

\* a context has been created over one that had left the greeting node and
\* had a transcript
C9_Witness ==
    \E i \in DOMAIN storeLog :
        /\ storeLog[i].op = "create"
        /\ HasCtx(storeLog[i].before)
        /\ storeLog[i].before.current_node # S("n61")
        /\ storeLog[i].arg.DOB = None

\* C10 (as claimed): while a turn of a call is suspended in its extraction or
\* in its API call, no step of another task writes to that call's context.
C10_TurnNotInterleaved ==
    dgPc \in {"extract", "api"} =>
        \A i \in DOMAIN storeLog :
            storeLog[i].call_sid = turn.call_sid =>
                storeLog[i].by = "deepgram_receiver"

\* C12 (as claimed): in every bundle process returns, should_update_agent is
\* true exactly when next_node differs from the node the turn started in,
\* the terminal node END included.
C12_UpdateIffNodeChanged ==
    hResult.next_node # "none" =>
        (hResult.should_update_agent <=> hResult.next_node # hResult.node_id)

\* C13: a turn whose transition is END returns at once with prompt None: no
\* API call is made, no prompt update is sent, the stored current node and
\* the stored API fields are as before and no marker is appended.
C13_TerminalReturnsAtOnce ==
    [][hResult'.next_node = "END" =>
          LET before == get_context(contexts, hResult'.call_sid)
              after == get_context(contexts', hResult'.call_sid)
          IN  /\ hResult'.prompt = None
              /\ dgPc # "api"
              /\ \A i \in DOMAIN dgOut' : dgOut'[i] # "UpdatePrompt"
              /\ get_current_node(contexts', hResult'.call_sid)
                    = get_current_node(contexts, hResult'.call_sid)
              /\ \A k \in {"api_status_code", "api_error", "confirmation_number"} :
                     Get(after, k, None) = Get(before, k, None)
              /\ NoMarkerAppended("END")]_vars

\* a turn at the wrong-number node has returned END on an existing context
C13_Witness ==
    /\ hResult.next_node = "END"
    /\ hResult.node_id = "n69"
    /\ HasCtx(hResult.context)
    /\ get_current_node(contexts, hResult.call_sid) = "n69"

\* C14: execute_apis on a node with one POST action: a 200 response sets
\* confirmation_number to the mapped response value; a response with another
\* status sets api_error and leaves confirmation_number as it was, unset.
C14_PostOutcomeRecorded ==
    [][(dgPc = "api" /\ dgPc' # "api" /\ CatalogApis(turn.next_node) = "post") =>
          LET before == turn.context
              after == hResult'.context
          IN  /\ after.api_status_code = I(200) =>
                     after.confirmation_number = S("C1")
              /\ (IsInt(after.api_status_code) /\ after.api_status_code # I(200)) =>
                     /\ IsStr(after.api_error)
                     /\ after.confirmation_number = before.confirmation_number
                     /\ IsNone(after.confirmation_number)]_vars

\* the POST of a node has returned status 500 on a context without a
\* confirmation number
C14_Witness ==
    /\ hResult.next_node = "n34"
    /\ HasCtx(hResult.context)
    /\ hResult.context.api_status_code = I(500)
    /\ IsStr(hResult.context.api_error)
    /\ IsNone(hResult.context.confirmation_number)

\* process has returned a change to a node for which the catalog has no
\* prompt: get_rendered_prompt returned None
PromptMissing(res) ==
    /\ res.next_node \notin {"none", "END"}
    /\ res.next_node # res.node_id
    /\ res.prompt = None

\* C26: a turn whose transition target has no prompt in the catalog (an
\* unknown node id, or a node without a prompt template) leaves the stored
\* current node as it was.
C26_ConfigFailureStaysPut ==
    [][PromptMissing(hResult') =>
          get_current_node(contexts', hResult'.call_sid)
             = get_current_node(contexts, hResult'.call_sid)]_vars

\* the transcript entries appended in the step that carry the marker of
\* next_node
MarkersAppended(next_node) ==
    {<<r, i>> \in (DOMAIN lists') \X (1..(MaxEvents + 2)) :
        /\ i \in DOMAIN lists'[r]
        /\ (r \in DOMAIN lists => i > Len(lists[r]))
        /\ lists'[r][i].content = "[Node: " \o next_node \o "]"}

\* C28: a turn that changes the node to a non-terminal node leaves the
\* stored current node equal to the returned next_node and has appended
\* exactly one transcript marker of the transition.
C28_NodeChangePersistedAndMarked ==
    [][(hResult'.next_node \notin {"none", "END"}
        /\ hResult'.next_node # hResult'.node_id) =>
          /\ get_current_node(contexts', hResult'.call_sid) = hResult'.next_node
          /\ Cardinality(MarkersAppended(hResult'.next_node)) = 1]_vars

\* C31: when the LLM call of extract_variables raises or answers with
\* something that is no JSON object, the turn goes on with an empty
\* extraction: the merge into the context changes no field, the next node
\* is what get_next_node gives for no variables, and process goes on to the
\* API actions of that node or returns its bundle; it does not raise.
C31_ExtractionFailureProceedsEmpty ==
    [][(llmOut' \in LLMFailures) =>
          /\ dgPc = "extract"
          /\ Len(storeLog') >= 1
          /\ storeLog'[1].op = "update" /\ storeLog'[1].arg = EmptyDict
          /\ storeLog'[1].before = get_context(contexts, turn.call_sid)
          /\ storeLog'[1].after = storeLog'[1].before
          /\ LET next_node == get_next_node(turn.node_id, EmptyDict,
                                  get_context(contexts, turn.call_sid))
             IN  \/ /\ dgPc' = "api"
                    /\ turn'.extracted = EmptyDict /\ turn'.next_node = next_node
                 \/ /\ dgPc' = "recv"
                    /\ hResult'.next_node = next_node
                    /\ hResult'.node_id = turn.node_id
                    /\ hResult'.extracted = EmptyDict]_vars

\* process has returned its bundle for a turn at the date-of-birth node
\* whose LLM answer was no JSON
C31_Witness ==
    /\ llmOut = "not_json" /\ dgPc = "recv"
    /\ hResult.next_node = "n68" /\ hResult.node_id = "n68"
    /\ hResult.extracted = EmptyDict

-----------------------------------------------------------------------------
(***************************************************************************)
(* Properties of the Context Store under concurrent callers, checked under *)
(* SpecStore.                                                              *)
(***************************************************************************)
\* C11: after every call of a Context Store method, create and delete
\* included, every method can proceed on every call id (no lock is left
\* locked); the call took effect on the state the call before it left, and
\* the contexts of the other call ids are as they were.
C11_CallsNeverBlock ==
    [][/\ \A call_sid \in StoreIds, op \in StoreOps :
              LockOf(contexts', op, call_sid) \notin held'
       /\ Len(storeLog') = 1
       /\ storeLog'[1].before = get_context(contexts, storeLog'[1].call_sid)
       /\ storeLog'[1].after = get_context(contexts', storeLog'[1].call_sid)
       /\ \A other \in StoreIds \ {storeLog'[1].call_sid} :
              get_context(contexts', other) = get_context(contexts, other)]_vars

\* the context of one call has been deleted while another call has one
C11_Witness ==
    /\ Len(storeLog) = 1
    /\ storeLog[1].op = "delete"
    /\ storeLog[1].call_sid = "CA2"
    /\ HasCtx(storeLog[1].before)
    /\ "CA1" \in DOMAIN contexts
    /\ held = {}


\* what increment_counter returns: the new value, 0 for an id without a
\* context
increment_counter_result(ctxs, call_sid, counter_name) ==
    IF call_sid \notin DOMAIN ctxs THEN 0
    ELSE Num(Get(ctxs[call_sid], counter_name, I(0))) + 1

\* C27: every mutation of a call id is applied to the state the call
\* before it left and changes what it names and nothing else: an
\* increment_counter call raises the counter by one and returns the new
\* value, which no earlier call returned; update_context, set_current_node
\* and append_transcript leave the counter and each other's fields as they
\* found them.
C27_NoLostUpdate ==
    [][\A i \in DOMAIN storeLog' :
          LET e == storeLog'[i]
              now == get_context(contexts', e.call_sid)
              counter(c) == Num(Get(c, "dob_attempts", I(0)))
          IN  (HasCtx(e.before) /\ e.op \in {"increment", "update", "set_node", "append"}) =>
                 /\ e.before = get_context(contexts, e.call_sid)
                 /\ e.after = now
                 /\ e.op = "increment" =>
                       /\ counter(now) = counter(e.before) + 1
                       /\ increment_counter_result(contexts, e.call_sid,
                              "dob_attempts") = counter(now)
                       /\ \A k \in DOMAIN now \ {"dob_attempts"} :
                              now[k] = e.before[k]
                 /\ e.op = "update" =>
                       now = Overlay(e.before, FilteredUpdates(e.arg))
                 /\ e.op = "set_node" =>
                       now = Overlay(e.before, e.arg)
                 /\ e.op = "append" =>
                       /\ now = e.before
                       /\ Len(lists'[now.transcript[2]])
                             = Len(lists[now.transcript[2]]) + 1
                 /\ e.op # "append" =>
                       lists'[now.transcript[2]] = lists[now.transcript[2]]]_vars

\* two increments, an update, a node change and an append on one id have
\* all left their mark
C27_Witness ==
    LET c == get_context(contexts, "CA1")
    IN  /\ HasCtx(c)
        /\ Get(c, "dob_attempts", I(0)) = I(2)
        /\ Get(c, "language", None) = S("es")
        /\ Get(c, "current_node", None) = S("n68")
        /\ Len(lists[c.transcript[2]]) = 1
        /\ HasCtx(get_context(contexts, "CA2"))

-----------------------------------------------------------------------------
(***************************************************************************)
(* Properties of the connections of one call, checked under SpecCall and   *)
(* SpecCallFair.                                                           *)
(***************************************************************************)
IsAudio(e) == e.what \in {"audio_in", "audio_out"}

\* C15: while the reconnect flag is set no audio frame is forwarded in
\* either direction: a frame is forwarded only in the step that takes it,
\* with the flag clear, at most once, inbound audio into the open connection
\* that deepgram_ws names; a telephony frame taken while the flag is set is
\* dropped and twilio_receiver goes on.
C15_AudioDroppedWhileReconnecting ==
    [][/\ Len(relayOut') <= 1
       /\ \A i \in DOMAIN relayOut' :
             IsAudio(relayOut'[i]) =>
                /\ ~reconnect_event /\ ~relayOut'[i].flag
                /\ conns[relayOut'[i].conn] = "open"
                /\ relayOut'[i].what = "audio_in" =>
                      /\ relayOut'[i].conn = deepgram_ws
                      /\ twFrames' = twFrames + 1
                /\ relayOut'[i].what = "audio_out" => dgEvents' = dgEvents + 1
       /\ (reconnect_event /\ twFrames' # twFrames) =>
             /\ relayOut' = <<Sent("drop_in", deepgram_ws, TRUE)>>
             /\ twPc' = twPc
             /\ conns' = conns]_vars

\* a telephony frame has been dropped during a reconnect
C15_Witness ==
    /\ reconnect_event
    /\ relayOut = <<Sent("drop_in", deepgram_ws, TRUE)>>
    /\ conns[deepgram_ws] = "closed"
    /\ twPc = "recv"

\* the language switch has run to its end and nothing has started since
ReconnectCompleted ==
    /\ reconnectLog # << >>
    /\ reconnectLog[Len(reconnectLog)] = "clear"

\* C16: after a language-switch reconnect has completed, while the new
\* connection is open, deepgram_receiver is in its loop and the connection
\* it reads events and audio from is the new one.
C16_RelayReadsNewConnection ==
    (ReconnectCompleted /\ callPc = "gather" /\ conns[deepgram_ws] = "open")
        => (dgPc = "recv" /\ dgIter = deepgram_ws)

ReconnectOrder == <<"set", "close", "render", "open", "clear">>

IsPrefixOf(a, b) == Len(a) <= Len(b) /\ a = SubSeq(b, 1, Len(a))

\* C17: the steps of a language-switch reconnect are logged in the order
\* set the flag, close the connection, render the prompts, open the new
\* connection, clear the flag; the connection is closed by the switch only
\* with the flag set, the flag stays set until the last step, and it is
\* cleared only in the step after which deepgram_ws names a new connection
\* that is open.
C17_ReconnectOrder ==
    [][/\ IsPrefixOf(reconnectLog', ReconnectOrder)
       /\ reconnectLog' # reconnectLog =>
             \/ reconnectLog' = <<"set", "close">> /\ ~reconnect_event
             \/ IsPrefixOf(reconnectLog, reconnectLog')
       /\ (dgPc' = "closing" /\ dgPc # "closing") =>
             /\ reconnectLog' = <<"set", "close">>
             /\ reconnect_event'
             /\ conns[deepgram_ws] = "open" /\ conns'[deepgram_ws] = "closed"
       /\ Len(reconnectLog') \in 1..4 => reconnect_event'
       /\ (reconnect_event /\ ~reconnect_event') =>
             /\ reconnectLog = <<"set", "close", "render">>
             /\ reconnectLog' = ReconnectOrder
             /\ deepgram_ws' \notin DOMAIN conns
             /\ conns'[deepgram_ws'] = "open"
             /\ conns'[deepgram_ws] = "closed"
       /\ (~reconnect_event /\ reconnect_event') => dgPc' = "closing"]_vars

\* a reconnect has run through its five steps
C17_Witness ==
    /\ reconnectLog = ReconnectOrder
    /\ ~reconnect_event
    /\ deepgram_ws = 2 /\ conns = <<"closed", "open">>
    /\ current_language = "es"

\* C18: whenever the reconnect flag is set it is eventually cleared, also
\* when rendering the prompts or opening the new connection fails.
C18_ReconnectFlagCleared == reconnect_event ~> ~reconnect_event

\* C19: after a keep-alive send has failed, the loop of deepgram_sender is
\* still running.
C19_HeartbeatSurvivesFailedSend ==
    (\E i \in DOMAIN relayOut : relayOut[i].what = "KeepAliveFailed")
        => senderPc = "run"

\* the finally block of handle_twilio_call has run
CleanedUp ==
    /\ callPc = "done"
    /\ conns[deepgram_ws] = "closed"
    /\ ~HasCtx(get_context(contexts, hCallSid))
    /\ hStreamSid \notin active_calls

\* C20: after twilio_receiver has taken the stop frame, the call eventually
\* reaches its cleanup: the voice session is closed, the context of the call
\* is deleted and the call is removed from active_calls.
C20_StopLeadsToCleanup == (twPc = "done") ~> CleanedUp

\* the handler has left asyncio.gather and gone through its finally block,
\* whether or not every statement of the block ran
CleanupReached == callPc = "done"

\* the voice session has called end_call for the call
EndCallRequested ==
    /\ hCallSid # NoSid
    /\ Get(get_context(contexts, hCallSid), "call_ended", None) = B(TRUE)

\* C21: after the voice session has called end_call, the call eventually
\* reaches its cleanup.
C21_EndCallLeadsToCleanup == EndCallRequested ~> CleanupReached

\* a relay loop has ended on a transport failure: twilio_receiver on the
\* telephony connection, or deepgram_receiver on a voice-session connection
\* that closed without a language switch
TransportFailed ==
    \/ twPc = "failed"
    \/ dgPc = "done" /\ reconnectLog = << >>

\* C22: after a relay loop has ended on a transport failure of its
\* connection, the call eventually reaches its cleanup.
C22_TransportFailureLeadsToCleanup == TransportFailed ~> CleanupReached

\* C23: when the handler has finished, every step of the cleanup has run
\* whichever step failed: the context of the call is deleted, the memo has
\* been handed over or its failure logged, and the call is removed from
\* active_calls.
C23_CleanupStepsIsolated ==
    callPc = "done" =>
        /\ ~HasCtx(get_context(contexts, hCallSid))
        /\ hStreamSid \notin active_calls
        /\ hCallSid # NoSid =>
              \E i \in DOMAIN relayOut : relayOut[i].what \in {"memo", "memo_failed"}

C25_ContextLivesUntilCleanup ==
    [][/\ (hCallSid' # NoSid /\ callPc' = "gather") =>
             /\ HasCtx(get_context(contexts', hCallSid'))
             /\ hCallSid' \in get_all_active_calls(contexts')
       /\ (hCallSid' # NoSid /\ callPc' = "done") =>
             /\ ~HasCtx(get_context(contexts', hCallSid'))
             /\ hCallSid' \notin get_all_active_calls(contexts')
       /\ \A i \in DOMAIN storeLog' :
             storeLog'[i].op = "delete" =>
                /\ storeLog'[i].before = get_context(contexts, storeLog'[i].call_sid)
                /\ storeLog'[i].after = NoContext
                /\ contexts' = delete_context(contexts, storeLog'[i].call_sid)
       /\ \A id \in StoreIds :
             LET d == delete_context(contexts', id)
             IN  /\ final_context(contexts', id) = get_context(contexts', id)
                 /\ get_context(d, id) = NoContext
                 /\ id \notin get_all_active_calls(d)
                 /\ final_context(d, id) = NoContext
                 /\ delete_context(d, id) = d]_vars

\* the cleanup of a started call has deleted its context and had the
\* state the call left as the snapshot
C25_Witness ==
    /\ callPc = "done" /\ hCallSid = "CA1"
    /\ Len(storeLog) = 1 /\ storeLog[1].op = "delete"
    /\ Get(storeLog[1].before, "call_ended", None) = B(TRUE)
    /\ ~HasCtx(get_context(contexts, "CA1"))
-----------------------------------------------------------------------------
(***************************************************************************)
(* Properties of the turns that enter a node with API actions, checked     *)
(* under SpecApi.                                                          *)
(***************************************************************************)
\* an API action of execute_apis on entry to the node has failed
ApiFailedOnEntry(node) ==
    \E i \in DOMAIN apiLog : apiLog[i].node = node /\ apiLog[i].outcome # "ok"
\* the transition the node's rules take for a successful API action
SuccessTarget(node) ==
    CASE node = "n50" -> "n51"
      [] node = "n6" -> "n4"
      [] OTHER -> "none"

\* C29: after an API action run on entry to n50 or n6 has failed and the
\* failure is recorded in the context, the next turn at that node does not
\* take the success transition (n51, n4), whatever earlier API calls of the
\* call left in the context and whichever of several declared actions
\* failed.
C29_FailedApiNotTakenForSuccess ==
    (/\ hResult.next_node # "none"
     /\ hResult.node_id \in {"n50", "n6"}
     /\ ApiFailedOnEntry(hResult.node_id)
     /\ TC(hResult.context, "api_error"))
        => hResult.next_node # SuccessTarget(hResult.node_id)

\* the context fields execute_apis writes
ApiFields == {"api_status_code", "api_error", "api_response", "confirmation_number"}

\* C30: API actions run only in a turn that changed the node to one that
\* declares actions, one after the other in declared order; an action that
\* answers another status than 200 leaves api_status_code and api_error in
\* the context, one that raises leaves api_error; neither ends
\* deepgram_receiver with an exception, the declared actions after it still
\* run, and after the last one process returns the turn's result with the
\* fields of the API actions written to the store.
C30_ApiActionsRunInOrderNeverRaise ==
    [][/\ (dgPc # "api" /\ dgPc' = "api") =>
              /\ NodeChanged(turn'.next_node, turn'.node_id)
              /\ CatalogApis(turn'.next_node) # "none"
              /\ turn'.api_i = 1
       /\ (dgPc # "api") => apiLog' = apiLog
       /\ (dgPc = "api" /\ <<dgPc, turn, apiLog>>' # <<dgPc, turn, apiLog>>) =>
              LET n == CatalogApiCount(turn.next_node)
                  ran == apiLog'[Len(apiLog')]
                  after == IF dgPc' = "api" THEN turn'.context ELSE hResult'.context
              IN  /\ Len(apiLog') = Len(apiLog) + 1
                  /\ SubSeq(apiLog', 1, Len(apiLog)) = apiLog
                  /\ ran.node = turn.next_node /\ ran.i = turn.api_i
                  /\ dgPc' # "done"
                  /\ (ran.outcome = "status") =>
                         /\ CEq(after, "api_status_code", I(500))
                         /\ TC(after, "api_error")
                  /\ (ran.outcome = "raise") => TC(after, "api_error")
                  /\ (ran.i < n) =>
                         /\ dgPc' = "api" /\ turn'.api_i = ran.i + 1
                         /\ turn'.next_node = turn.next_node
                  /\ (ran.i = n) =>
                         /\ dgPc' = "recv"
                         /\ hResult'.next_node = turn.next_node
                         /\ \A k \in ApiFields :
                                Get(get_context(contexts', turn.call_sid), k, None)
                                    = Get(hResult'.context, k, None)]_vars

\* process has returned from a turn that entered the payment node: the
\* first of its two actions failed and the second one ran
C30_Witness ==
    /\ dgPc = "recv" /\ hResult.next_node = "n50" /\ hResult.node_id = "n42"
    /\ Len(apiLog) = 2
    /\ apiLog[1].node = "n50" /\ apiLog[1].i = 1 /\ apiLog[1].outcome # "ok"
    /\ apiLog[2].node = "n50" /\ apiLog[2].i = 2
-----------------------------------------------------------------------------
(***************************************************************************)
(* Further properties of the Context Store, checked under SpecStore.       *)
(***************************************************************************)
\* the last n entries of a transcript, in append order
LastEntries(seq, n) ==
    [i \in 1..(IF n < Len(seq) THEN n ELSE Len(seq)) |->
        seq[i + (IF n < Len(seq) THEN Len(seq) - n ELSE 0)]]

\* C35: the transcript of a call only grows at its end: an append_transcript
\* adds its entry behind the entries there are, no other call on a context
\* that is not deleted removes or reorders entries, and get_transcript
\* returns the last n entries in append order, all of them without a limit.
C35_TranscriptAppendOnly ==
    [][\A call_sid \in StoreIds :
          (call_sid \in DOMAIN contexts /\ call_sid \in DOMAIN contexts') =>
              LET old == lists[contexts[call_sid]["transcript"][2]]
                  new == lists'[contexts'[call_sid]["transcript"][2]]
              IN  /\ IsPrefixOf(old, new)
                  /\ (storeLog'[1].op = "append" /\ storeLog'[1].call_sid = call_sid)
                         => new = Append(old, Entry("user", "hi"))
                  /\ (storeLog'[1].op # "append" \/ storeLog'[1].call_sid # call_sid)
                         => new = old
                  /\ get_transcript(contexts', lists', call_sid, 0) = new
                  /\ \A n \in 1..(MaxGrowth + 1) :
                         get_transcript(contexts', lists', call_sid, n)
                             = LastEntries(new, n)]_vars
\* C36: for a call id that has no context the reading methods report
\* absence (get_context None, get_current_node "n61", increment_counter 0,
\* get_transcript an empty list), and update_context, set_current_node,
\* append_transcript and increment_counter change nothing in the store,
\* create no context and no lock, and leave no lock locked.
C36_AbsentIdReportsAbsence ==
    [][\A call_sid \in StoreIds :
          (call_sid \notin DOMAIN contexts) =>
              /\ get_context(contexts, call_sid) = NoContext
              /\ get_current_node(contexts, call_sid) = "n61"
              /\ increment_counter_result(contexts, call_sid, "dob_attempts") = 0
              /\ \A n \in 0..1 : get_transcript(contexts, lists, call_sid, n) = << >>
              /\ (/\ storeLog'[1].call_sid = call_sid
                  /\ storeLog'[1].op \in {"update", "set_node", "append", "increment"})
                     => /\ contexts' = contexts /\ lists' = lists
                        /\ locks' = locks /\ held' = held
                        /\ storeLog'[1].before = NoContext
                        /\ storeLog'[1].after = NoContext]_vars

\* set_current_node has been called for a call without a context while the
\* other call has one
C36_Witness ==
    /\ Len(storeLog) = 1 /\ storeLog[1].op = "set_node"
    /\ storeLog[1].call_sid \notin DOMAIN contexts
    /\ storeLog[1].after = NoContext
    /\ DOMAIN contexts # {}

\* C37: after any sequence of create_context and delete_context calls, in
\* any interleaving with the other methods and on either id, the ids that
\* have a context are the ids that have a lock in _locks; _contexts is a
\* dict, so an id has one context at most
C37_ContextsMatchLocks ==
    /\ DOMAIN contexts = locks
    /\ get_all_active_calls(contexts) \subseteq StoreIds
    /\ \A call_sid \in StoreIds :
           (get_context(contexts, call_sid) # NoContext) <=> (call_sid \in locks)

\* a delete_context has removed the context and the lock of one id while
\* the other id, created before it, keeps both
C37_Witness ==
    /\ storeLog # << >>
    /\ storeLog[1].op = "delete"
    /\ storeLog[1].before # NoContext
    /\ storeLog[1].call_sid \notin DOMAIN contexts
    /\ storeLog[1].call_sid \notin locks
    /\ locks # {}


\* the methods that take the lock of one call
PerCallOps == StoreOps \ {"create", "delete"}

\* C38: a method of one call that runs next to delete_context calls on the
\* same id never ends in a KeyError on _locks or _contexts: it never has to
\* give way between its existence check and its access (no lock is locked
\* when a caller starts), an id with a context has its lock, and the step
\* either is the early return on an absent context, which changes nothing,
\* or works on the context as the step before left it.
C38_NoErrorNextToDelete ==
    [][/\ held' = {}
       /\ \A call_sid \in StoreIds :
              LockedAccess(contexts', locks', held', call_sid) \in {"absent", "done"}
       /\ storeLog'[1].op \in PerCallOps =>
              /\ storeLog'[1].after # KeyError
              /\ storeLog'[1].before = get_context(contexts, storeLog'[1].call_sid)
              /\ storeLog'[1].before = NoContext =>
                     /\ storeLog'[1].after = NoContext
                     /\ contexts' = contexts /\ locks' = locks
              /\ storeLog'[1].before # NoContext =>
                     /\ storeLog'[1].after = get_context(contexts', storeLog'[1].call_sid)
                     /\ storeLog'[1].after # NoContext]_vars

\* delete_context has just deleted the context of a call that had one: a
\* method of that call that comes next takes the early return, and a
\* method of the other call works on its context
C38_Witness ==
    /\ storeLog # << >>
    /\ storeLog[1].op = "delete"
    /\ storeLog[1].before # NoContext
    /\ LockedAccess(contexts, locks, held, storeLog[1].call_sid) = "absent"
    /\ \E other \in StoreIds :
           LockedAccess(contexts, locks, held, other) = "done"


\* what a caller reads in a dict it holds: the values of the fields, the
\* entries of the list object for a field that refers to one
Seen(d, lsts) ==
    [k \in DOMAIN d |-> IF d[k][1] = "ref" THEN lsts[d[k][2]] ELSE d[k]]

\* the methods the snapshot of a caller is to be isolated from
LaterOps == {"update", "set_node", "increment", "append"}

\* C40: the snapshot a Context Store method has returned is isolated from
\* the store: a later update_context, set_current_node, increment_counter
\* or append_transcript on the call changes nothing the holder of the
\* snapshot reads in it, the entries of its transcript included.  The
\* snapshot is the one the step before returned, for a call whose context
\* is still stored.
C40_SnapshotIsolated ==
    [][(/\ storeLog # << >>
        /\ HasCtx(storeLog[1].after)
        /\ storeLog[1].call_sid \in DOMAIN contexts
        /\ storeLog'[1].op \in LaterOps
        /\ storeLog'[1].call_sid = storeLog[1].call_sid)
       => Seen(storeLog[1].after, lists') = Seen(storeLog[1].after, lists)]_vars

\* the part of C40 that holds: the fields of the snapshot other than the
\* transcript are what they were, whatever the later call
C40_ScalarFieldsIsolated ==
    [][(/\ storeLog # << >>
        /\ HasCtx(storeLog[1].after)
        /\ storeLog[1].call_sid \in DOMAIN contexts
        /\ storeLog'[1].op \in LaterOps
        /\ storeLog'[1].call_sid = storeLog[1].call_sid)
       => \A k \in DOMAIN storeLog[1].after \ {"transcript"} :
              /\ Seen(storeLog[1].after, lists')[k] = Seen(storeLog[1].after, lists)[k]
              /\ storeLog[1].after[k][1] # "ref"]_vars

=============================================================================
